---- MODULE Spec2Model ----
(***************************************************************************)
(* SasyaNova: provider selection (select_best_annachi), order placement    *)
(* (orders_create_auto, orders_create, api_create_order) over the shared   *)
(* SQLite store, status updates (annachi_orders_update), and the hub that  *)
(* publishes order events (event_stream, broadcast, the stream routes).    *)
(*                                                                         *)
(* Specifications                                                          *)
(*  - Spec: the three order routes on two threads.                         *)
(*  - SpecSelect: the selector on registries of shops.                     *)
(*  - SpecSelectOrder: the selector on every enumeration of a registry.    *)
(*  - SpecStatus: status updates on an order table with a shared bundle.   *)
(*  - SpecLife: the order routes and the status updates on one store.      *)
(*  - SpecHub, SpecHubFair: the hub's subscribers and calls of broadcast;  *)
(*    the order and status specifications keep only the log `published`    *)
(*    of what was handed to broadcast().                                   *)
(*  - SpecValidate: the item validation loop on carts.                     *)
(*  - SpecEmit: /orders/create_auto with emissions that may fail.          *)
(*  - SpecLegacy: /orders/create alone on two threads.                     *)
(*  - SpecStatusEmit: status updates with emissions that may fail.         *)
(*  - SpecHubFail: the hub when a put into a queue may raise.              *)
(*  - SpecHubSeq: the hub under threads that publish call after call.      *)
(*                                                                         *)
(* Conventions of the model                                                *)
(*  - A Python None of a numeric field is the empty tuple None, a present  *)
(*    value x is <<x>>.  A missing pincode is "": every read of a pincode  *)
(*    in the code goes through `x or ""` or a truth test, so None and ""   *)
(*    are indistinguishable there.                                         *)
(*  - Coordinates lie on one meridian and are counted in kilometres of     *)
(*    arc, so the great-circle distance of two points is the absolute      *)
(*    difference of their latitudes.                                       *)
(*  - Every request runs in its own SQLAlchemy session (unit of work):     *)
(*    rows are read into the session's identity map when first queried,    *)
(*    changed there, and written by flush/commit.  pysqlite opens a        *)
(*    transaction only at the first write, so a commit writes the values   *)
(*    computed from what the session read earlier.                         *)
(***************************************************************************)
EXTENDS Integers, Sequences, FiniteSets, TLC

VARIABLES users, products, orders, published, clock, dblock, th, nreq, sel, hub

vars == <<users, products, orders, published, clock, dblock, th, nreq, sel, hub>>

(***************************************************************************)
(* Bounds                                                                  *)
(***************************************************************************)
\* Highest value of the millisecond clock.
MaxClock == 1
\* Highest number of requests the order routes receive.
MaxRequests == 2
\* Highest latitude (km of arc) of a shop or a consumer in the registries
\* the selector is explored on.
MaxCoord == 2
\* Highest service radius in those registries.
MaxRadius == 1
\* Highest number of calls of broadcast() the hub is explored on.
MaxEvents == 2
\* Highest number of items of the carts item validation is explored on.
MaxItems == 3

(***************************************************************************)
(* Optional values and strings                                             *)
(***************************************************************************)
None == <<>>

Some(x) == <<x>>

Val(o) == o[1]

\* str.strip() on the strings of the model.
Strip(s) ==
  CASE s = " 600001" -> "600001"
    [] s = " Rice "  -> "Rice"
    [] s = "  "      -> ""
    [] OTHER         -> s

\* str.lower() on the strings of the model.
Lower(s) ==
  CASE s = "Cereals"    -> "cereals"
    [] s = "VEGETABLES" -> "vegetables"
    [] OTHER            -> s

FIXED_CATS == {"cereals", "fruits", "vegetables"}

SENTINEL == 1000000000

FAR == 100000000

Abs(x) == IF x < 0 THEN -x ELSE x

(***************************************************************************)
(* Distance Evaluator                                                      *)
(***************************************************************************)
\* Both points are on one meridian (lon1 = lon2), where the haversine
\* distance is the arc between the latitudes.
haversine(lat1, lon1, lat2, lon2) == Abs(lat2 - lat1)

distance_km(consumer_lat, consumer_lng, a) ==
  IF consumer_lat = None \/ consumer_lng = None THEN SENTINEL
  ELSE IF a.shop_lat = None \/ a.shop_lng = None THEN SENTINEL
  ELSE haversine(Val(consumer_lat), Val(consumer_lng), Val(a.shop_lat), Val(a.shop_lng))

(***************************************************************************)
(* Provider Selector                                                       *)
(***************************************************************************)
\* A candidate pool that is not filtered by role.
anns_everyone(U) == DOMAIN U

\* User.query.filter_by(role="annachi").all()
anns_all(U) == {a \in DOMAIN U : U[a].role = "annachi"}

\* A phase 1 that compares the pincodes as they are written.
phase1_unstripped(U, consumer_pincode) ==
  IF consumer_pincode # ""
  THEN {a \in {u \in DOMAIN U : U[u].role = "annachi"} :
          U[a].pincode = consumer_pincode}
  ELSE {}

\* Phase 1: the providers of the request's pincode.
phase1(U, consumer_pincode) ==
  IF consumer_pincode # ""
  THEN {a \in anns_all(U) : Strip(U[a].pincode) = Strip(consumer_pincode)}
  ELSE {}

\* A key that puts a shop of unknown position with the out-of-radius ones.
score_unknown_is_out(U, consumer_lat, consumer_lng, a) ==
  LET dist == distance_km(consumer_lat, consumer_lng, U[a])
  IN  IF /\ consumer_lat # None /\ consumer_lng # None
         /\ (dist >= FAR \/ ~(dist <= U[a].service_radius_km))
      THEN <<1, SENTINEL, a>>
      ELSE <<0, dist, a>>

\* service_radius_km is an INTEGER column with default 5 that the profile
\* route only overwrites with an int >= 0, so isinstance(.., int) holds.
score(U, consumer_lat, consumer_lng, a) ==
  LET dist == distance_km(consumer_lat, consumer_lng, U[a])
  IN  IF /\ consumer_lat # None /\ consumer_lng # None
         /\ dist < FAR
         /\ ~(dist <= U[a].service_radius_km)
      THEN <<1, SENTINEL, a>>
      ELSE <<0, dist, a>>

\* Python's ordering of tuples.
TupleLeq(s, t) ==
  \/ s[1] < t[1]
  \/ s[1] = t[1] /\ s[2] < t[2]
  \/ s[1] = t[1] /\ s[2] = t[2] /\ s[3] <= t[3]

\* sorted(choice_pool, key=score)[0]; 0 when the pool is empty.
ranked_first(U, consumer_lat, consumer_lng, pool) ==
  IF pool = {} THEN 0
  ELSE CHOOSE a \in pool : \A b \in pool :
         TupleLeq(score(U, consumer_lat, consumer_lng, a),
                  score(U, consumer_lat, consumer_lng, b))

\* A pool that ignores the pincode of the request.
choice_pool_all(U, consumer_pincode) == anns_all(U)

choice_pool(U, consumer_pincode) ==
  IF phase1(U, consumer_pincode) # {} THEN phase1(U, consumer_pincode) ELSE anns_all(U)

\* The providers within their own radius of the consumer, over the whole pool.
inrad(U, consumer_lat, consumer_lng) ==
  {a \in anns_all(U) :
     LET d == distance_km(consumer_lat, consumer_lng, U[a])
     IN  d < FAR /\ d <= U[a].service_radius_km}

\* The in-radius provider of lowest id, whatever its distance.
inrad_lowest_id(U, consumer_lat, consumer_lng) ==
  LET S == inrad(U, consumer_lat, consumer_lng)
  IN  CHOOSE a \in S : \A b \in S : a <= b

\* inrad.sort(key=(d, id))[0]
inrad_first(U, consumer_lat, consumer_lng) ==
  LET S == inrad(U, consumer_lat, consumer_lng)
      key(a) == <<0, distance_km(consumer_lat, consumer_lng, U[a]), a>>
  IN  CHOOSE a \in S : \A b \in S : TupleLeq(key(a), key(b))

\* The selector without its escape valve.
fallback_absent(U, consumer_lat, consumer_lng, chosen) == chosen

\* The escape valve: a chosen provider out of its radius is replaced by the
\* nearest provider within its radius, when there is one.
fallback(U, consumer_lat, consumer_lng, chosen) ==
  IF chosen # 0 /\ consumer_lat # None /\ consumer_lng # None
  THEN LET ch_dist == distance_km(consumer_lat, consumer_lng, U[chosen])
       IN  IF /\ ch_dist < FAR
              /\ ch_dist > U[chosen].service_radius_km
              /\ inrad(U, consumer_lat, consumer_lng) # {}
           THEN inrad_first(U, consumer_lat, consumer_lng)
           ELSE chosen
  ELSE chosen

\* select_best_annachi: [ann |-> provider id, 0 for none; dist |-> km or None].
select_best_annachi(U, consumer_pincode, consumer_lat, consumer_lng) ==
  IF anns_all(U) = {} THEN [ann |-> 0, dist |-> None]
  ELSE
    LET first  == ranked_first(U, consumer_lat, consumer_lng,
                               choice_pool(U, consumer_pincode))
        chosen == fallback(U, consumer_lat, consumer_lng, first)
        dd     == distance_km(consumer_lat, consumer_lng, U[chosen])
    IN  [ann  |-> chosen,
         dist |-> IF consumer_lat # None /\ consumer_lng # None /\ dd < FAR
                  THEN Some(dd) ELSE None]

(***************************************************************************)
(* The store                                                               *)
(***************************************************************************)
Threads == {"t1", "t2"}

User(role, lat, lng, pincode, radius) ==
  [role |-> role, shop_lat |-> lat, shop_lng |-> lng, pincode |-> pincode,
   service_radius_km |-> radius]

\* The registry of the order model: two shops of pincode 600001, eight
\* kilometres apart, with the default radius, and two consumers.
OrderUsers ==
  [u \in 1..4 |->
     CASE u = 1 -> User("annachi", Some(0), Some(0), "600001", 5)
       [] u = 2 -> User("annachi", Some(8), Some(0), "600001", 5)
       [] OTHER -> User("consumer", None, None, "", 5)]

Product(owner, name, category, pincode, stock) ==
  [owner_id |-> owner, name |-> name, category |-> category, pincode |-> pincode,
   stock |-> stock, total_purchased |-> 0]

\* The catalog rows: Rice and Tomato of shop 1, Rice of shop 2.
Catalog(rice1) ==
  [p \in 1..3 |->
     CASE p = 1 -> Product(1, "Rice", "cereals", "600001", rice1)
       [] p = 2 -> Product(1, "Tomato", "vegetables", "600001", 1)
       [] OTHER -> Product(2, "Rice", "cereals", "600001", 1)]

\* The stock shop 1 starts with for Rice.
RiceStocks == {1, 2}

PIDs == DOMAIN products

Order(consumer, pid, qty, ann, bundle_id) ==
  [consumer_id |-> consumer, product_id |-> pid, quantity |-> qty,
   status |-> "Pending", assigned_annachi_id |-> ann, bundle_id |-> bundle_id]

NoBundle == <<>>

\* f"{ms}-{user}-A{ann}", f"{ms}-{user}-legacy", f"{ms}-{user}-single": the
\* fields are integers, so the text is one-to-one with the tuple.
BundleId(ms, user, tag, ann) == <<ms, user, tag, ann>>

(***************************************************************************)
(* A request's session and position                                        *)
(***************************************************************************)
NoResp == [code |-> 0]

IdleThread(resp) ==
  [pc |-> "idle", route |-> "none", user |-> 0, items |-> <<>>, ann |-> 0,
   dist |-> None, i |-> 0, cache |-> [p \in PIDs |-> None], dirty |-> {},
   unavailable |-> <<>>, found_rows |-> <<>>, pending |-> <<>>, created |-> <<>>,
   bundle_id |-> NoBundle, oid |-> <<>>, new_status |-> "", rows |-> <<>>,
   resp |-> resp]

\* The session's view of a product row: the identity map's object when the
\* row was loaded before (a later query does not refresh it), else the row.
View(cache, pid) ==
  IF cache[pid] # None THEN Val(cache[pid])
  ELSE [stock |-> products[pid].stock, total_purchased |-> products[pid].total_purchased]

Loaded(cache, pid) == [cache EXCEPT ![pid] = Some(View(cache, pid))]

\* prod.stock -= qty; prod.total_purchased = (prod.total_purchased or 0) + qty
Sell(cache, pid, qty) ==
  [cache EXCEPT ![pid] = Some([stock |-> Val(cache[pid]).stock - qty,
                               total_purchased |-> Val(cache[pid]).total_purchased + qty])]

\* The loop over found_rows on the session's objects.
RECURSIVE SellRows(_, _)
SellRows(cache, rows) ==
  IF rows = <<>> THEN cache
  ELSE SellRows(Sell(cache, Head(rows)[1], Head(rows)[2]), Tail(rows))

\* A flush that writes one of the changed rows only.
Flushed_first_row_only(cache, dirty) ==
  [p \in PIDs |->
     IF p \in dirty /\ \A q \in dirty : p <= q
     THEN [products[p] EXCEPT !.stock = Val(cache[p]).stock,
                              !.total_purchased = Val(cache[p]).total_purchased]
     ELSE products[p]]

\* flush: UPDATE of the changed rows with the session's values.
Flushed(cache, dirty) ==
  [p \in PIDs |->
     IF p \in dirty
     THEN [products[p] EXCEPT !.stock = Val(cache[p]).stock,
                              !.total_purchased = Val(cache[p]).total_purchased]
     ELSE products[p]]

\* The event of one order line, as the three order routes build it.
NewOrderEvent(id) ==
  [type |-> "new_order", owner_id |-> products[orders[id].product_id].owner_id,
   consumer_id |-> orders[id].consumer_id,
   assigned_annachi_id |-> orders[id].assigned_annachi_id,
   order_id |-> id, status |-> orders[id].status, quantity |-> orders[id].quantity,
   bundle_id |-> orders[id].bundle_id]

\* broadcast(data): the hub's log of what was handed to it.
broadcast(log, data) == Append(log, data)

(***************************************************************************)
(* Requests                                                                *)
(***************************************************************************)
Item(name, category, quantity) ==
  [name |-> name, category |-> category, quantity |-> quantity]

\* The carts sent to /orders/create_auto.  The first one sends the quantity
\* 0, which int(it.get("quantity") or 1) reads as 1, as it does a missing
\* quantity.
AutoCarts ==
  { <<Item(" Rice ", "Cereals", 0)>>,
    <<Item("Rice", "cereals", 1), Item("Rice", "cereals", 1)>>,
    <<Item("Tomato", "vegetables", 1), Item("Rice", "cereals", 1)>>,
    <<Item("Onion", "vegetables", 1), Item("Rice", "cereals", 1),
      Item("Tomato", "vegetables", 2)>>,
    <<Item("Rice", "cereals", 1), Item("Rice", "grains", 1), Item("", "fruits", -1)>>,
    <<>> }

\* The consumer blocks of those requests: pincode alone, and pincode with
\* the coordinates of a consumer standing at shop 2.
Infos ==
  { [pincode |-> "600001", lat |-> None, lng |-> None],
    [pincode |-> " 600001", lat |-> Some(8), lng |-> Some(0)] }

CartLine(pid, quantity) == [product_id |-> pid, quantity |-> quantity]

\* The carts sent to /orders/create; product 9 does not exist.
LegacyCarts ==
  { <<CartLine(1, 1), CartLine(3, 1)>>,
    <<CartLine(2, 1), CartLine(2, 1)>>,
    <<CartLine(3, 1), CartLine(9, 1)>>,
    <<CartLine(1, 1), CartLine(2, 0)>>,
    <<>> }

\* The bodies sent to /api/orders.
SingleBodies ==
  { CartLine(1, 0), CartLine(3, 2), CartLine(9, 1) }

\* The logged-in callers: shop 1 and a consumer.
Callers == {1, 3}

\* A request arrives at a free thread.
Arrive(t) ==
  /\ th[t].pc = "idle"
  /\ nreq < MaxRequests
  /\ nreq' = nreq + 1

Respond(t, resp) ==
  th' = [th EXCEPT ![t] = IdleThread(resp)]

(***************************************************************************)
(* /orders/create_auto                                                     *)
(***************************************************************************)
\* name.strip(), category.strip().lower(), int(quantity or 1)
normalize(it) ==
  [name |-> Strip(it.name), category |-> Lower(Strip(it.category)),
   qty |-> IF it.quantity = 0 THEN 1 ELSE it.quantity]

invalid(it) ==
  \/ normalize(it).name = ""
  \/ normalize(it).category \notin FIXED_CATS
  \/ normalize(it).qty < 1

\* A validation loop that goes through the whole cart and keeps the last
\* invalid item.
validation_error_last(cart) ==
  LET bad == {k \in 1..Len(cart) : invalid(cart[k])}
  IN  IF bad = {} THEN NoResp
      ELSE [code |-> 400, error |-> "Invalid line item",
            item |-> cart[CHOOSE k \in bad : \A j \in bad : k >= j]]

\* The validation loop returns at the first invalid item.
validation_error(cart) ==
  LET bad == {k \in 1..Len(cart) : invalid(cart[k])}
  IN  IF bad = {} THEN NoResp
      ELSE [code |-> 400, error |-> "Invalid line item",
            item |-> cart[CHOOSE k \in bad : \A j \in bad : k <= j]]

\* Role check, validation and provider selection, up to the first query of
\* the product table.
BeginAuto(t) ==
  /\ Arrive(t)
  /\ \E user \in Callers, cart \in AutoCarts, info \in Infos :
          IF users[user].role # "consumer"
          THEN Respond(t, [code |-> 403, error |-> "Only consumers can place orders"])
          ELSE IF cart = <<>>
          THEN Respond(t, [code |-> 400, error |-> "Cart is empty"])
          ELSE IF validation_error(cart) # NoResp
          THEN Respond(t, validation_error(cart))
          ELSE LET s == select_best_annachi(users, info.pincode, info.lat, info.lng)
               IN  IF s.ann = 0
                   THEN Respond(t, [code |-> 404, error |-> "No Annachi available for your area"])
                   ELSE th' = [th EXCEPT ![t] =
                          [IdleThread(NoResp) EXCEPT
                             !.pc = "check", !.route = "auto", !.user = user,
                             !.items = [k \in 1..Len(cart) |-> normalize(cart[k])],
                             !.ann = s.ann, !.dist = s.dist, !.i = 1]]
  /\ UNCHANGED <<users, products, orders, published, clock, dblock, sel, hub>>

\* A product query without the owner filter.
find_product_any_owner(ann, it) ==
  LET rows == {p \in PIDs : /\ products[p].name = it.name
                            /\ products[p].category = it.category
                            /\ products[p].pincode = users[ann].pincode}
  IN  IF rows = {} THEN 0 ELSE CHOOSE p \in rows : \A q \in rows : p <= q

\* Product.query.filter_by(owner_id, name, category, pincode).first(); 0 for None.
find_product(ann, it) ==
  LET rows == {p \in PIDs : /\ products[p].owner_id = ann
                            /\ products[p].name = it.name
                            /\ products[p].category = it.category
                            /\ products[p].pincode = users[ann].pincode}
  IN  IF rows = {} THEN 0 ELSE CHOOSE p \in rows : \A q \in rows : p <= q

\* An availability loop that stops recording at the first unavailable line.
check_line_first_only(c, it) ==
  LET prod == find_product(c.ann, it)
  IN  IF c.unavailable # <<>> THEN c
      ELSE IF prod = 0
      THEN [c EXCEPT !.unavailable = Append(@,
              [name |-> it.name, category |-> it.category,
               reason |-> "not_found_for_selected_annachi", left |-> None])]
      ELSE IF View(c.cache, prod).stock < it.qty
      THEN [c EXCEPT !.cache = Loaded(@, prod),
                     !.unavailable = Append(@,
              [name |-> it.name, category |-> it.category,
               reason |-> "insufficient_stock", left |-> Some(View(c.cache, prod).stock)])]
      ELSE [c EXCEPT !.cache = Loaded(@, prod),
                     !.found_rows = Append(@, <<prod, it.qty>>)]

\* One pass of the availability loop: the thread after line `it`.
check_line(c, it) ==
  LET prod == find_product(c.ann, it)
  IN  IF prod = 0
      THEN [c EXCEPT !.unavailable = Append(@,
              [name |-> it.name, category |-> it.category,
               reason |-> "not_found_for_selected_annachi", left |-> None])]
      ELSE IF View(c.cache, prod).stock < it.qty
      THEN [c EXCEPT !.cache = Loaded(@, prod),
                     !.unavailable = Append(@,
              [name |-> it.name, category |-> it.category,
               reason |-> "insufficient_stock", left |-> Some(View(c.cache, prod).stock)])]
      ELSE [c EXCEPT !.cache = Loaded(@, prod),
                     !.found_rows = Append(@, <<prod, it.qty>>)]

\* A rejection only of carts of which no line is available.
rejected_if_none_found(c) == c.found_rows = <<>>

\* if unavailable: the call is rejected.
rejected(c) == c.unavailable # <<>>

\* The 409 response.
conflict(c) ==
  [code |-> 409, error |-> "Some items are not available from the selected Annachi",
   assigned_annachi_id |-> c.ann, distance_km |-> c.dist, unavailable |-> c.unavailable]

\* All lines are available: the bundle id and the order rows are made and
\* stock is taken on the session's objects; the commit is still to come.
reserve(c) ==
  LET bid == BundleId(clock, c.user, "A", c.ann)
  IN  [c EXCEPT !.pc = "commit", !.bundle_id = bid,
                !.cache = SellRows(@, c.found_rows),
                !.dirty = {c.found_rows[k][1] : k \in 1..Len(c.found_rows)},
                !.pending = [k \in 1..Len(c.found_rows) |->
                               Order(c.user, c.found_rows[k][1], c.found_rows[k][2],
                                     c.ann, bid)]]

CheckLine(t) ==
  /\ th[t].pc = "check"
  /\ LET c == check_line(th[t], th[t].items[th[t].i])
     IN  IF th[t].i < Len(th[t].items)
         THEN th' = [th EXCEPT ![t] = [c EXCEPT !.i = @ + 1]]
         ELSE IF rejected(c)
         THEN Respond(t, conflict(c))
         ELSE th' = [th EXCEPT ![t] = reserve(c)]
  /\ UNCHANGED <<users, products, orders, published, clock, dblock, nreq, sel, hub>>

(***************************************************************************)
(* Commit and publication, shared by the three order routes                *)
(***************************************************************************)
\* A commit after which the created rows are listed last row first.
committed_last_first(c) ==
  [c EXCEPT !.pc = "emit", !.i = 1, !.pending = <<>>, !.dirty = {},
            !.cache = [p \in PIDs |-> None],
            !.created = [k \in 1..Len(c.pending) |->
                           Len(orders) + Len(c.pending) + 1 - k]]

\* db.session.commit(): the changed product rows and the new order rows are
\* written in one SQLite transaction; the session's objects expire.
committed(c) ==
  [c EXCEPT !.pc = "emit", !.i = 1, !.pending = <<>>, !.dirty = {},
            !.cache = [p \in PIDs |-> None],
            !.created = [k \in 1..Len(c.pending) |-> Len(orders) + k]]

Commit(t) ==
  /\ th[t].pc = "commit"
  /\ dblock \in {"none", t}
  /\ products' = Flushed(th[t].cache, th[t].dirty)
  /\ orders' = orders \o th[t].pending
  /\ dblock' = "none"
  /\ th' = [th EXCEPT ![t] = committed(th[t])]
  /\ UNCHANGED <<users, published, clock, nreq, sel, hub>>

\* A failed commit whose flushed rows stay.
not_rolled_back(prods, c) == Flushed(c.cache, c.dirty)

\* What a failed commit leaves of the transaction: db.session.rollback()
\* (the teardown's session.remove() on the other routes) discards it.
rolled_back(prods, c) == prods

\* The commit raises: the transaction is rolled back and a 500 is returned.
CommitFail(t) ==
  /\ th[t].pc = "commit"
  /\ products' = rolled_back(products, th[t])
  /\ dblock' = IF dblock = t THEN "none" ELSE dblock
  /\ Respond(t, [code |-> 500,
                  error |-> IF th[t].route = "auto" THEN "Failed to create orders"
                            ELSE "Internal Server Error"])
  /\ UNCHANGED <<users, orders, published, clock, nreq, sel, hub>>

\* The 200 response.
ok_response(c) ==
  [code |-> 200, created |-> c.created, bundle_id |-> c.bundle_id,
   assigned_annachi_id |-> c.ann, distance_km |-> c.dist]

\* One pass of the loop over the created rows: the row's event is handed to
\* the hub; after the last one the request returns.
Emit(t) ==
  /\ th[t].pc = "emit"
  /\ published' = broadcast(published, NewOrderEvent(th[t].created[th[t].i]))
  /\ IF th[t].i < Len(th[t].created)
     THEN th' = [th EXCEPT ![t].i = @ + 1]
     ELSE Respond(t, ok_response(th[t]))
  /\ UNCHANGED <<users, products, orders, clock, dblock, nreq, sel, hub>>

(***************************************************************************)
(* /orders/create (legacy multi-item route)                                *)
(***************************************************************************)
BeginLegacy(t) ==
  /\ Arrive(t)
  /\ \E user \in Callers, cart \in LegacyCarts :
          IF users[user].role # "consumer"
          THEN Respond(t, [code |-> 403, error |-> "Only consumers can place orders"])
          ELSE IF cart = <<>>
          THEN Respond(t, [code |-> 400, error |-> "Cart is empty"])
          ELSE th' = [th EXCEPT ![t] =
                 [IdleThread(NoResp) EXCEPT
                    !.pc = "item", !.route = "legacy", !.user = user, !.items = cart,
                    !.i = 1, !.bundle_id = BundleId(clock, user, "legacy", 0)]]
  /\ UNCHANGED <<users, products, orders, published, clock, dblock, sel, hub>>

\* Product.query.get(pid) answers from the identity map when it can; else it
\* queries, and the query first flushes the session's pending rows, which
\* opens the write transaction and takes SQLite's write lock.
needs_flush(c, pid) ==
  /\ c.pending # <<>>
  /\ (pid \notin PIDs \/ c.cache[pid] = None)

\* The early return of one pass of the loop, NoResp when the item is accepted.
legacy_error(c, it) ==
  IF it.product_id \notin PIDs
  THEN [code |-> 404, error |-> "Product not found"]
  ELSE IF Lower(products[it.product_id].category) \notin FIXED_CATS
  THEN [code |-> 400, error |-> "Category not allowed"]
  ELSE IF it.quantity < 1
  THEN [code |-> 400, error |-> "Quantity must be >= 1"]
  ELSE IF View(c.cache, it.product_id).stock < it.quantity
  THEN [code |-> 400, error |-> "Insufficient stock"]
  ELSE NoResp

\* A loop that commits after every accepted item.
legacy_take_commit_each(c, it) ==
  [c EXCEPT !.cache = Sell(Loaded(@, it.product_id), it.product_id, it.quantity),
            !.dirty = @ \cup {it.product_id},
            !.pending = Append(@, Order(c.user, it.product_id, it.quantity,
                                        products[it.product_id].owner_id, c.bundle_id)),
            !.i = @ + 1,
            !.pc = "commit"]

\* The accepted item: the order row joins the session and stock is taken on
\* the session's object.
legacy_take(c, it) ==
  [c EXCEPT !.cache = Sell(Loaded(@, it.product_id), it.product_id, it.quantity),
            !.dirty = @ \cup {it.product_id},
            !.pending = Append(@, Order(c.user, it.product_id, it.quantity,
                                        products[it.product_id].owner_id, c.bundle_id)),
            !.i = @ + 1,
            !.pc = IF c.i < Len(c.items) THEN "item" ELSE "commit"]

LegacyItem(t) ==
  /\ th[t].pc = "item"
  /\ LET c  == th[t]
         it == c.items[c.i]
     IN  /\ needs_flush(c, it.product_id) => dblock \in {"none", t}
         /\ IF legacy_error(c, it) # NoResp
            THEN /\ Respond(t, legacy_error(c, it))
                 /\ dblock' = IF dblock = t THEN "none" ELSE dblock
            ELSE /\ th' = [th EXCEPT ![t] = legacy_take(c, it)]
                 /\ dblock' = IF needs_flush(c, it.product_id) THEN t ELSE dblock
  /\ UNCHANGED <<users, products, orders, published, clock, nreq, sel, hub>>

(***************************************************************************)
(* /api/orders (single-item route)                                         *)
(***************************************************************************)
BeginSingle(t) ==
  /\ Arrive(t)
  /\ \E user \in Callers, body \in SingleBodies :
       LET it == [body EXCEPT !.quantity = IF @ = 0 THEN 1 ELSE @]
           c  == [IdleThread(NoResp) EXCEPT
                    !.route = "single", !.user = user, !.items = <<it>>, !.i = 1,
                    !.bundle_id = BundleId(clock, user, "single", 0)]
       IN  IF users[user].role # "consumer"
           THEN Respond(t, [code |-> 403, error |-> "Only consumers can place orders"])
           ELSE IF legacy_error(c, it) # NoResp
           THEN Respond(t, legacy_error(c, it))
           ELSE th' = [th EXCEPT ![t] = legacy_take(c, it)]
  /\ UNCHANGED <<users, products, orders, published, clock, dblock, sel, hub>>

(***************************************************************************)
(* The hub's state: subscribers, their queues and the calls of broadcast   *)
(***************************************************************************)
\* The connections that may ask for a stream; each one that is served gets
\* a SimpleQueue of its own.
Conns == {"c1", "c2"}

\* A connection that has not asked yet.
NoConn == [state |-> "none", user |-> 0]

\* A thread that is not inside broadcast().
NoCall == [pc |-> "idle", data |-> <<>>, todo |-> {}, dead |-> {},
           registered |-> {}, steady |-> {}]

\* subscribers = set(): the hub after construction.  queue[q] is what waits
\* in q's SimpleQueue, yielded[q] what q's generator has yielded, nev the
\* number of broadcast() calls so far.  The fields registered and steady of a
\* call record the subscribers at its start and those of them that have
\* stayed registered since.
NoHub ==
  [subscribers |-> {}, queue |-> [q \in Conns |-> <<>>],
   yielded |-> [q \in Conns |-> <<>>], conn |-> [q \in Conns |-> NoConn],
   call |-> [t \in Threads |-> NoCall], nev |-> 0]

(***************************************************************************)
(* The clock, and the specification of the order routes                    *)
(***************************************************************************)
\* datetime.utcnow() in milliseconds moves on.
Tick ==
  /\ clock < MaxClock
  /\ clock' = clock + 1
  /\ UNCHANGED <<users, products, orders, published, dblock, th, nreq, sel, hub>>

NoSel == [pc |-> "none"]

Init ==
  /\ users = OrderUsers
  /\ \E rice1 \in RiceStocks : products = Catalog(rice1)
  /\ orders = <<>>
  /\ published = <<>>
  /\ clock = 0
  /\ dblock = "none"
  /\ th = [t \in Threads |-> IdleThread(NoResp)]
  /\ nreq = 0
  /\ sel = NoSel
  /\ hub = NoHub

Next ==
  \/ \E t \in Threads : BeginAuto(t)
  \/ \E t \in Threads : CheckLine(t)
  \/ \E t \in Threads : Commit(t)
  \/ \E t \in Threads : CommitFail(t)
  \/ \E t \in Threads : Emit(t)
  \/ \E t \in Threads : BeginLegacy(t)
  \/ \E t \in Threads : LegacyItem(t)
  \/ \E t \in Threads : BeginSingle(t)
  \/ Tick

Spec == Init /\ [][Next]_vars

(***************************************************************************)
(* The specification of the legacy multi-item route: /orders/create on two *)
(* threads                                                                 *)
(***************************************************************************)
NextLegacy ==
  \/ \E t \in Threads : BeginLegacy(t)
  \/ \E t \in Threads : LegacyItem(t)
  \/ \E t \in Threads : Commit(t)
  \/ \E t \in Threads : CommitFail(t)
  \/ \E t \in Threads : Emit(t)

SpecLegacy == Init /\ [][NextLegacy]_vars

(***************************************************************************)
(* The specification of the selector: /api/nearest_annachi on the          *)
(* registries and requests below                                           *)
(***************************************************************************)
\* The coordinates a shop or a consumer may have: none, a point of the
\* meridian, or a latitude without a longitude.
Coords ==
  {<<None, None>>, <<Some(0), None>>} \cup {<<Some(x), Some(0)>> : x \in 0..MaxCoord}

Pincodes == {"", "600001", "600002"}

\* The records a user of the registry may have: a consumer, or a shop with
\* any coordinates, pincode and radius.
Shops ==
  {User("annachi", c[1], c[2], p, r) : c \in Coords, p \in Pincodes, r \in 0..MaxRadius}

Registries ==
  {[u \in 1..3 |-> CASE u = 1 -> a [] u = 2 -> b [] OTHER -> c] :
     a \in Shops \cup {User("consumer", None, None, "", 5)},
     b \in Shops \cup {User("consumer", None, None, "", 5)},
     c \in {User("consumer", None, None, "", 5),
            User("annachi", Some(1), Some(0), "600002", 1),
            User("annachi", None, None, "600001", 0)}}

\* The query parameters pin, lat, lng.
Queries ==
  {[pc |-> "ask", pincode |-> p, lat |-> c[1], lng |-> c[2]] :
     p \in Pincodes \cup {" 600001"}, c \in Coords}

InitSelect ==
  /\ users \in Registries
  /\ sel \in Queries
  /\ products = Catalog(1)
  /\ orders = <<>>
  /\ published = <<>>
  /\ clock = 0
  /\ dblock = "none"
  /\ th = [t \in Threads |-> IdleThread(NoResp)]
  /\ nreq = 0
  /\ hub = NoHub

\* api_nearest_annachi: the selector's answer to the query.
Select ==
  /\ sel.pc = "ask"
  /\ LET s == select_best_annachi(users, sel.pincode, sel.lat, sel.lng)
     IN  sel' = [sel EXCEPT !.pc = "done"] @@ [ann |-> s.ann, dist |-> s.dist]
  /\ UNCHANGED <<users, products, orders, published, clock, dblock, th, nreq, hub>>

NextSelect == Select

SpecSelect == InitSelect /\ [][NextSelect]_vars

(***************************************************************************)
(* The selector over an enumeration of the registry: the query of          *)
(* select_best_annachi has no ORDER BY, so the rows come in any order      *)
(***************************************************************************)
\* The orders in which User.query.filter_by(role="annachi").all() may
\* enumerate the providers.
Enumerations(U) ==
  LET A == anns_all(U)
  IN  {s \in [1..Cardinality(A) -> A] :
         \A i, j \in DOMAIN s : i # j => s[i] # s[j]}

\* sorted(list, key)[0]: sorted is stable, so among the entries of the
\* least key it is the one that comes first in the list.
sorted_first(list, key) ==
  list[CHOOSE i \in DOMAIN list :
         \A j \in DOMAIN list :
           /\ TupleLeq(key[list[i]], key[list[j]])
           /\ TupleLeq(key[list[j]], key[list[i]]) => i <= j]

\* A key of the in-radius list without the provider id.
inrad_key_distance_only(U, consumer_lat, consumer_lng, a) ==
  <<0, distance_km(consumer_lat, consumer_lng, U[a]), 0>>

\* The key (d, id) of inrad.sort.
inrad_key(U, consumer_lat, consumer_lng, a) ==
  <<0, distance_km(consumer_lat, consumer_lng, U[a]), a>>

\* select_best_annachi on the providers as enumerated by anns_all.
select_enumerated(U, anns, consumer_pincode, consumer_lat, consumer_lng) ==
  IF anns = <<>> THEN [ann |-> 0, dist |-> None]
  ELSE
    LET InPhase1(a) == a \in phase1(U, consumer_pincode)
        p1     == SelectSeq(anns, InPhase1)
        pool   == IF p1 # <<>> THEN p1 ELSE anns
        first  == sorted_first(pool,
                    [a \in DOMAIN U |-> score(U, consumer_lat, consumer_lng, a)])
        InRad(a) == a \in inrad(U, consumer_lat, consumer_lng)
        inr    == SelectSeq(anns, InRad)
        ch_dist == distance_km(consumer_lat, consumer_lng, U[first])
        chosen ==
          IF /\ consumer_lat # None /\ consumer_lng # None
             /\ ch_dist < FAR
             /\ ch_dist > U[first].service_radius_km
             /\ inr # <<>>
          THEN sorted_first(inr,
                 [a \in DOMAIN U |-> inrad_key(U, consumer_lat, consumer_lng, a)])
          ELSE first
        dd     == distance_km(consumer_lat, consumer_lng, U[chosen])
    IN  [ann  |-> chosen,
         dist |-> IF consumer_lat # None /\ consumer_lng # None /\ dd < FAR
                  THEN Some(dd) ELSE None]

\* api_nearest_annachi when the registry enumerates the providers in some
\* order.
SelectEnumerated ==
  /\ sel.pc = "ask"
  /\ \E anns \in Enumerations(users) :
       LET s == select_enumerated(users, anns, sel.pincode, sel.lat, sel.lng)
       IN  sel' = [sel EXCEPT !.pc = "done"] @@ [ann |-> s.ann, dist |-> s.dist]
  /\ UNCHANGED <<users, products, orders, published, clock, dblock, th, nreq, hub>>

NextSelectOrder == SelectEnumerated

SpecSelectOrder == InitSelect /\ [][NextSelectOrder]_vars

(***************************************************************************)
(* /annachi/orders/update/<oid>                                            *)
(***************************************************************************)
\* The bundle of a legacy cart of consumer 3 with a line of either shop,
\* and the bundle of a place_bundle call of the same consumer at shop 1.
SharedBundle == BundleId(0, 3, "legacy", 0)

OwnBundle == BundleId(0, 3, "A", 1)

\* The order table after those two submissions, and the catalog they leave
\* of Catalog(2).
StatusOrders ==
  << Order(3, 1, 1, 1, SharedBundle), Order(3, 3, 1, 2, SharedBundle),
     Order(3, 2, 1, 1, OwnBundle), Order(3, 1, 1, 1, OwnBundle) >>

StatusProducts ==
  [p \in 1..3 |->
     [Catalog(2)[p] EXCEPT !.stock = 0,
                           !.total_purchased = IF p = 1 THEN 2 ELSE 1]]

\* The <oid> of the URL: "BUNDLE_" and a bundle id, the text of an integer,
\* or another text.
BundleOid(bid) == <<"BUNDLE", bid>>

NumberOid(n) == <<"ID", n>>

Oids ==
  { BundleOid(SharedBundle), BundleOid(OwnBundle), BundleOid(BundleId(1, 4, "A", 2)),
    NumberOid(1), NumberOid(2), NumberOid(9), <<"TEXT">> }

\* request.form.get("status"): "" for a missing or empty field, the three
\* statuses of the life cycle, and a text that is none of them.
Statuses == {"", "Pending", "Packed", "Delivered", "Lost"}

\* The logged-in callers of the route: both shops and a consumer.
StatusCallers == {1, 2, 3}

\* The redirect with its flashed message.
Flash(msg) == [code |-> 302, flash |-> msg]

\* The request is routed to the handler.
UpdateArrive(t) ==
  /\ Arrive(t)
  /\ \E user \in StatusCallers, oid \in Oids, new_status \in Statuses :
       th' = [th EXCEPT ![t] =
                [IdleThread(NoResp) EXCEPT
                   !.pc = "update", !.route = "update", !.user = user,
                   !.oid = oid, !.new_status = new_status]]
  /\ UNCHANGED <<users, products, orders, published, clock, dblock, sel, hub>>

\* A bundle query without the filter on owner and assigned provider.
bundle_rows_unfiltered(user, bundle_id) ==
  LET ids == {id \in DOMAIN orders : orders[id].bundle_id = bundle_id}
  IN  [k \in 1..Cardinality(ids) |->
         CHOOSE id \in ids : Cardinality({j \in ids : j < id}) = k - 1]

\* Order.query.join(Product).filter(bundle_id).filter(or_(owner, assigned)).all():
\* the ids of the rows, in id order.
bundle_rows(user, bundle_id) ==
  LET ids == {id \in DOMAIN orders :
                /\ orders[id].bundle_id = bundle_id
                /\ orders[id].product_id \in PIDs
                /\ \/ products[orders[id].product_id].owner_id = user
                   \/ orders[id].assigned_annachi_id = user}
  IN  [k \in 1..Cardinality(ids) |->
         CHOOSE id \in ids : Cardinality({j \in ids : j < id}) = k - 1]

\* A check of the single path that only asks for the product to exist.
single_unauthorized_product_only(user, id) ==
  orders[id].product_id \notin PIDs

\* (not order.product) or (owner_id != current_user.id and
\*                         assigned_annachi_id != current_user.id)
single_unauthorized(user, id) ==
  \/ orders[id].product_id \notin PIDs
  \/ /\ products[orders[id].product_id].owner_id # user
     /\ orders[id].assigned_annachi_id # user

\* A test that accepts the statuses of the life cycle only.
sent_in_life_cycle(new_status) == new_status \in {"Pending", "Packed", "Delivered"}

\* if new_status: any text but the empty one.
sent(new_status) == new_status # ""

\* The handler up to its first write: the thread it leaves.
update_query(c) ==
  LET go(rows) == [c EXCEPT !.pc = "ucommit", !.rows = rows]
      end(msg) == IdleThread(Flash(msg))
  IN  IF users[c.user].role # "annachi" THEN end("Access denied.")
      ELSE IF c.oid[1] = "BUNDLE"
      THEN LET rows == bundle_rows(c.user, c.oid[2])
           IN  IF rows = <<>> THEN end("Bundle not found or unauthorized")
               ELSE IF sent(c.new_status) THEN go(rows)
               ELSE end("Bundle unchanged (no status sent)")
      ELSE IF c.oid[1] # "ID" THEN end("Invalid order id")
      ELSE IF c.oid[2] \notin DOMAIN orders THEN IdleThread([code |-> 404])
      ELSE IF single_unauthorized(c.user, c.oid[2]) THEN end("Unauthorized")
      ELSE IF sent(c.new_status) THEN go(<<c.oid[2]>>)
      ELSE end("No status sent (order unchanged)")

UpdateQuery(t) ==
  /\ th[t].pc = "update"
  /\ th' = [th EXCEPT ![t] = update_query(th[t])]
  /\ UNCHANGED <<users, products, orders, published, clock, dblock, nreq, sel, hub>>

\* An update that reaches every line of the bundles of the rows.
set_status_of_bundles(rows, new_status) ==
  [id \in DOMAIN orders |->
     IF \E k \in DOMAIN rows : orders[rows[k]].bundle_id = orders[id].bundle_id
     THEN [orders[id] EXCEPT !.status = new_status]
     ELSE orders[id]]

\* for r in rows: r.status = new_status (order.status = new_status on the
\* single path): the order table with the rows of the session written.
set_status(rows, new_status) ==
  [id \in DOMAIN orders |->
     IF \E k \in DOMAIN rows : rows[k] = id
     THEN [orders[id] EXCEPT !.status = new_status]
     ELSE orders[id]]

\* r.status = new_status for the rows of the session; db.session.commit().
UpdateCommit(t) ==
  /\ th[t].pc = "ucommit"
  /\ dblock \in {"none", t}
  /\ orders' = set_status(th[t].rows, th[t].new_status)
  /\ th' = [th EXCEPT ![t].pc = "uemit", ![t].i = 1]
  /\ UNCHANGED <<users, products, published, clock, dblock, nreq, sel, hub>>

\* An event that carries the status every row is created with.
StatusEventAsCreated(id) ==
  [type |-> "status_update", owner_id |-> products[orders[id].product_id].owner_id,
   consumer_id |-> orders[id].consumer_id,
   assigned_annachi_id |-> orders[id].assigned_annachi_id,
   order_id |-> id, status |-> "Pending", bundle_id |-> orders[id].bundle_id]

\* The event of one updated row; the row's fields are read again after the
\* commit has expired them.
StatusEvent(id) ==
  [type |-> "status_update", owner_id |-> products[orders[id].product_id].owner_id,
   consumer_id |-> orders[id].consumer_id,
   assigned_annachi_id |-> orders[id].assigned_annachi_id,
   order_id |-> id, status |-> orders[id].status, bundle_id |-> orders[id].bundle_id]

\* The flashed message of an update that was made.
updated(c) ==
  IF c.oid[1] = "BUNDLE"
  THEN Flash("Bundle updated") @@ [bundle_id |-> c.oid[2], status |-> c.new_status]
  ELSE Flash("Order updated")

\* One pass of the loop over the updated rows (the single path has one row).
UpdateEmit(t) ==
  /\ th[t].pc = "uemit"
  /\ published' = broadcast(published, StatusEvent(th[t].rows[th[t].i]))
  /\ IF th[t].i < Len(th[t].rows)
     THEN th' = [th EXCEPT ![t].i = @ + 1]
     ELSE Respond(t, updated(th[t]))
  /\ UNCHANGED <<users, products, orders, clock, dblock, nreq, sel, hub>>

InitStatus ==
  /\ users = OrderUsers
  /\ products = StatusProducts
  /\ orders = StatusOrders
  /\ published = [k \in 1..Len(StatusOrders) |-> NewOrderEvent(k)]
  /\ clock = 0
  /\ dblock = "none"
  /\ th = [t \in Threads |-> IdleThread(NoResp)]
  /\ nreq = 0
  /\ sel = NoSel
  /\ hub = NoHub

NextStatus ==
  \/ \E t \in Threads : UpdateArrive(t)
  \/ \E t \in Threads : UpdateQuery(t)
  \/ \E t \in Threads : UpdateCommit(t)
  \/ \E t \in Threads : UpdateEmit(t)

SpecStatus == InitStatus /\ [][NextStatus]_vars

(***************************************************************************)
(* The specification of status updates with emissions that fail            *)
(***************************************************************************)
\* One pass of the loop over the updated rows in which the body of the try
\* raises (the expired row or its product cannot be loaded): except
\* Exception: app.logger.warning(...), nothing is handed to the hub and the
\* handler goes on.
UpdateEmitFail(t) ==
  /\ th[t].pc = "uemit"
  /\ IF th[t].i < Len(th[t].rows)
     THEN th' = [th EXCEPT ![t].i = @ + 1]
     ELSE Respond(t, updated(th[t]))
  /\ UNCHANGED <<users, products, orders, published, clock, dblock, nreq, sel, hub>>

NextStatusEmit ==
  \/ \E t \in Threads : UpdateArrive(t)
  \/ \E t \in Threads : UpdateQuery(t)
  \/ \E t \in Threads : UpdateCommit(t)
  \/ \E t \in Threads : UpdateEmit(t)
  \/ \E t \in Threads : UpdateEmitFail(t)

SpecStatusEmit == InitStatus /\ [][NextStatusEmit]_vars

(***************************************************************************)
(* The specification of the life of an order line: the three order routes  *)
(* and the status updates on one store                                     *)
(***************************************************************************)
\* The store after consumer 3 has bought, with a legacy cart, one Rice of
\* each shop out of Catalog(2), and shop 2 has delivered its line.
LifeOrders ==
  << Order(3, 1, 1, 1, SharedBundle),
     [Order(3, 3, 1, 2, SharedBundle) EXCEPT !.status = "Delivered"] >>

LifeProducts ==
  [p \in 1..3 |->
     IF p = 2 THEN Catalog(2)[p]
     ELSE [Catalog(2)[p] EXCEPT !.stock = @ - 1, !.total_purchased = 1]]

InitLife ==
  /\ users = OrderUsers
  /\ products = LifeProducts
  /\ orders = LifeOrders
  /\ published = << NewOrderEvent(1), [NewOrderEvent(2) EXCEPT !.status = "Pending"],
                    StatusEvent(2) >>
  /\ clock = 0
  /\ dblock = "none"
  /\ th = [t \in Threads |-> IdleThread(NoResp)]
  /\ nreq = 0
  /\ sel = NoSel
  /\ hub = NoHub

NextLife ==
  \/ \E t \in Threads : BeginAuto(t)
  \/ \E t \in Threads : CheckLine(t)
  \/ \E t \in Threads : Commit(t)
  \/ \E t \in Threads : CommitFail(t)
  \/ \E t \in Threads : Emit(t)
  \/ \E t \in Threads : BeginLegacy(t)
  \/ \E t \in Threads : LegacyItem(t)
  \/ \E t \in Threads : BeginSingle(t)
  \/ NextStatus

SpecLife == InitLife /\ [][NextLife]_vars

(***************************************************************************)
(* The hub: the stream routes, event_stream and broadcast                  *)
(***************************************************************************)
\* The users that ask for a stream: shop 1 and consumer 3.
StreamUsers == {1, 3}

\* The role that /annachi/orders/stream and /consumer/orders/stream serve.
StreamRoutes == {"annachi", "consumer"}

\* What the handlers hand to broadcast(): the event of a line of consumer 3
\* at shop 1 and the event of a line of consumer 4 at shop 2.
HubEvents ==
  { [consumer_id |-> 3, owner_id |-> 1, assigned_annachi_id |-> 1],
    [consumer_id |-> 4, owner_id |-> 2, assigned_annachi_id |-> 2] }

\* A stream route: the role check, then event_stream() up to its first
\* q.get().
OpenStream(q) ==
  /\ hub.conn[q].state = "none"
  /\ \E user \in StreamUsers, role \in StreamRoutes :
       IF users[user].role # role
       THEN hub' = [hub EXCEPT !.conn[q] = [NoConn EXCEPT !.state = "refused"]]
       ELSE hub' = [hub EXCEPT
                      !.conn[q] = [state |-> "open", user |-> user],
                      !.subscribers = @ \cup {q}]
  /\ UNCHANGED <<users, products, orders, published, clock, dblock, th, nreq, sel>>

\* A loop over the live set, which ends when the set changes under it.
iteration_over_live_set(todo, q) == {}

\* for q in list(subscribers): the loop runs over a list of its own, so a
\* discard takes nothing from what is left of it.
iteration_after_discard(todo, q) == todo

\* The generator is closed: finally: subscribers.discard(q).
CloseStream(q) ==
  /\ hub.conn[q].state = "open"
  /\ hub' = [hub EXCEPT
               !.conn[q].state = "closed",
               !.subscribers = @ \ {q},
               !.call = [t \in Threads |->
                           IF @[t].pc = "put"
                           THEN [@[t] EXCEPT !.todo = iteration_after_discard(@, q),
                                             !.steady = @ \ {q}]
                           ELSE @[t]]]
  /\ UNCHANGED <<users, products, orders, published, clock, dblock, th, nreq, sel>>

\* A get that takes what was put last.
get_newest(queue) ==
  [data |-> queue[Len(queue)], rest |-> SubSeq(queue, 1, Len(queue) - 1)]

\* q.get() on a queue that holds something: what it returns and what it
\* leaves; a SimpleQueue hands out what was put first.
get(queue) == [data |-> Head(queue), rest |-> Tail(queue)]

\* data = q.get(); yield: the client is sent the head of its queue.
Deliver(q) ==
  /\ hub.conn[q].state = "open"
  /\ hub.queue[q] # <<>>
  /\ hub' = [hub EXCEPT !.yielded[q] = Append(@, get(hub.queue[q]).data),
                        !.queue[q] = get(hub.queue[q]).rest]
  /\ UNCHANGED <<users, products, orders, published, clock, dblock, th, nreq, sel>>

\* A snapshot of every queue that was ever made.
snapshot_of_all_queues(subs) ==
  {q \in Conns : hub.conn[q].state \in {"open", "closed"}}

\* list(subscribers)
snapshot(subs) == subs

\* broadcast(data) is entered: dead = [] and the list of the loop is made.
\* The event gets the number of the call as its id.
BroadcastBegin(t) ==
  /\ hub.call[t].pc = "idle"
  /\ hub.nev < MaxEvents
  /\ \E ev \in HubEvents :
       hub' = [hub EXCEPT
                 !.nev = @ + 1,
                 !.call[t] = [pc |-> "put", data |-> ev @@ [id |-> hub.nev + 1],
                              todo |-> snapshot(hub.subscribers), dead |-> {},
                              registered |-> hub.subscribers,
                              steady |-> hub.subscribers]]
  /\ UNCHANGED <<users, products, orders, published, clock, dblock, th, nreq, sel>>

\* A put that waits for room in a queue of one place.
can_put_if_room(q) == Len(hub.queue[q]) < 1

\* A SimpleQueue has no bound: put_nowait never waits and never finds the
\* queue full.
can_put(q) == TRUE

\* One pass of the loop: q.put_nowait(data).
Put(t) ==
  /\ hub.call[t].pc = "put"
  /\ \E q \in hub.call[t].todo :
       /\ can_put(q)
       /\ hub' = [hub EXCEPT !.queue[q] = Append(@, hub.call[t].data),
                             !.call[t].todo = @ \ {q}]
  /\ UNCHANGED <<users, products, orders, published, clock, dblock, th, nreq, sel>>

\* A registry that keeps the queues whose put failed.
dead_kept(subs, dead) == subs

\* for q in dead: subscribers.discard(q)
discard_dead(subs, dead) == subs \ dead

\* The loop is over: the dead queues are discarded and broadcast() returns.
BroadcastEnd(t) ==
  /\ hub.call[t].pc = "put"
  /\ hub.call[t].todo = {}
  /\ hub' = [hub EXCEPT !.subscribers = discard_dead(@, hub.call[t].dead),
                        !.call[t] = NoCall]
  /\ UNCHANGED <<users, products, orders, published, clock, dblock, th, nreq, sel>>

InitHub ==
  /\ users = OrderUsers
  /\ products = Catalog(1)
  /\ orders = <<>>
  /\ published = <<>>
  /\ clock = 0
  /\ dblock = "none"
  /\ th = [t \in Threads |-> IdleThread(NoResp)]
  /\ nreq = 0
  /\ sel = NoSel
  /\ hub = NoHub

NextHub ==
  \/ \E q \in Conns : OpenStream(q)
  \/ \E q \in Conns : CloseStream(q)
  \/ \E q \in Conns : Deliver(q)
  \/ \E t \in Threads : BroadcastBegin(t)
  \/ \E t \in Threads : Put(t)
  \/ \E t \in Threads : BroadcastEnd(t)

SpecHub == InitHub /\ [][NextHub]_vars

\* The clients that keep reading their stream; c1 may stop reading for good.
Readers == Conns \ {"c1"}

\* Consumer 3 on c1 and shop 1 on c2 have opened their streams.
InitHubFair ==
  /\ users = OrderUsers
  /\ products = Catalog(1)
  /\ orders = <<>>
  /\ published = <<>>
  /\ clock = 0
  /\ dblock = "none"
  /\ th = [t \in Threads |-> IdleThread(NoResp)]
  /\ nreq = 0
  /\ sel = NoSel
  /\ hub = [NoHub EXCEPT
              !.subscribers = Conns,
              !.conn = [q \in Conns |->
                          [state |-> "open", user |-> IF q = "c1" THEN 3 ELSE 1]]]

NextHubFair ==
  \/ \E q \in Conns : CloseStream(q)
  \/ \E q \in Conns : Deliver(q)
  \/ \E t \in Threads : BroadcastBegin(t)
  \/ \E t \in Threads : Put(t)
  \/ \E t \in Threads : BroadcastEnd(t)

\* The hub from there on, with the threads inside broadcast() scheduled and
\* the generator of a client that keeps reading resumed when its queue
\* holds an event.
SpecHubFair ==
  /\ InitHubFair
  /\ [][NextHubFair]_vars
  /\ \A t \in Threads : WF_vars(Put(t)) /\ WF_vars(BroadcastEnd(t))
  /\ \A q \in Readers : WF_vars(Deliver(q))

(***************************************************************************)
(* The hub when a put may fail: q.put_nowait(data) raises (a SimpleQueue   *)
(* raises only when memory runs out) and broadcast() notes the queue dead  *)
(***************************************************************************)
\* One pass of the loop in which q.put_nowait(data) raises: except
\* Exception: dead.append(q).
PutFail(t) ==
  /\ hub.call[t].pc = "put"
  /\ \E q \in hub.call[t].todo :
       hub' = [hub EXCEPT !.call[t].dead = @ \cup {q},
                          !.call[t].todo = @ \ {q}]
  /\ UNCHANGED <<users, products, orders, published, clock, dblock, th, nreq, sel>>

NextHubFail ==
  \/ \E q \in Conns : OpenStream(q)
  \/ \E q \in Conns : CloseStream(q)
  \/ \E q \in Conns : Deliver(q)
  \/ \E t \in Threads : BroadcastBegin(t)
  \/ \E t \in Threads : Put(t)
  \/ \E t \in Threads : PutFail(t)
  \/ \E t \in Threads : BroadcastEnd(t)

\* Shop 1 has opened its stream on c1; c2 has not asked yet.
InitHubFail ==
  /\ users = OrderUsers
  /\ products = Catalog(1)
  /\ orders = <<>>
  /\ published = <<>>
  /\ clock = 0
  /\ dblock = "none"
  /\ th = [t \in Threads |-> IdleThread(NoResp)]
  /\ nreq = 0
  /\ sel = NoSel
  /\ hub = [NoHub EXCEPT !.subscribers = {"c1"},
                         !.conn["c1"] = [state |-> "open", user |-> 1]]

SpecHubFail == InitHubFail /\ [][NextHubFail]_vars

(***************************************************************************)
(* The hub under the per-line loops of the handlers: each thread calls     *)
(* broadcast() once per line, one call after the other                     *)
(***************************************************************************)
\* broadcast(data) is entered from the loop of the handler that thread t
\* runs; the event records, besides the number of the call, the thread
\* whose loop published it.
BroadcastLine(t) ==
  /\ hub.call[t].pc = "idle"
  /\ hub.nev < MaxEvents
  /\ \E ev \in HubEvents :
       hub' = [hub EXCEPT
                 !.nev = @ + 1,
                 !.call[t] = [pc |-> "put",
                              data |-> ev @@ [id |-> hub.nev + 1, by |-> t],
                              todo |-> snapshot(hub.subscribers), dead |-> {},
                              registered |-> hub.subscribers,
                              steady |-> hub.subscribers]]
  /\ UNCHANGED <<users, products, orders, published, clock, dblock, th, nreq, sel>>

NextHubSeq ==
  \/ \E q \in Conns : CloseStream(q)
  \/ \E q \in Conns : Deliver(q)
  \/ \E t \in Threads : BroadcastLine(t)
  \/ \E t \in Threads : Put(t)
  \/ \E t \in Threads : BroadcastEnd(t)

SpecHubSeq == InitHubFair /\ [][NextHubSeq]_vars

(***************************************************************************)
(* The specification of item validation: the validation loop of            *)
(* /orders/create_auto on the carts below                                  *)
(***************************************************************************)
\* The items of those carts: a Rice line as the user interface sends it, a
\* Rice line with the quantity 0, a line of a category outside the fixed
\* set, and a line without a name and with a negative quantity.
ValidatedItems ==
  { Item("Rice", "cereals", 1), Item(" Rice ", "Cereals", 0),
    Item("Rice", "grains", 1), Item("", "fruits", -1) }

\* payload.get("items"): the carts of up to MaxItems of those items.
ValidatedCarts ==
  UNION {[1..n -> ValidatedItems] : n \in 1..MaxItems}

InitValidate ==
  /\ users = OrderUsers
  /\ products = Catalog(1)
  /\ orders = <<>>
  /\ published = <<>>
  /\ clock = 0
  /\ dblock = "none"
  /\ th = [t \in Threads |-> IdleThread(NoResp)]
  /\ nreq = 0
  /\ sel \in {[pc |-> "cart", cart |-> c] : c \in ValidatedCarts}
  /\ hub = NoHub

\* The loop over the items: the response it returns, NoResp when it lets
\* the cart pass to provider selection.
ValidateItems ==
  /\ sel.pc = "cart"
  /\ sel' = [sel EXCEPT !.pc = "validated"] @@ [resp |-> validation_error(sel.cart)]
  /\ UNCHANGED <<users, products, orders, published, clock, dblock, th, nreq, hub>>

NextValidate == ValidateItems

SpecValidate == InitValidate /\ [][NextValidate]_vars

(***************************************************************************)
(* The specification of /orders/create_auto with emissions that fail       *)
(***************************************************************************)
\* An exception of the loop body that leaves the handler.
emission_failure_aborts(c) ==
  IdleThread([code |-> 500, error |-> "Internal Server Error"])

\* except Exception: app.logger.warning(...): the loop goes on with the next
\* row, and after the last one the request returns its 200 response.
after_emit_failure(c) ==
  IF c.i < Len(c.created) THEN [c EXCEPT !.i = @ + 1]
  ELSE IdleThread(ok_response(c))

\* One pass of the loop over the created rows in which the body of the try
\* raises (the row or its product cannot be loaded): nothing is handed to
\* the hub.
EmitFail(t) ==
  /\ th[t].pc = "emit"
  /\ th[t].route = "auto"
  /\ th' = [th EXCEPT ![t] = after_emit_failure(th[t])]
  /\ UNCHANGED <<users, products, orders, published, clock, dblock, nreq, sel, hub>>

\* The steps of the route, within one millisecond of the clock.
NextEmit ==
  \/ \E t \in Threads : BeginAuto(t)
  \/ \E t \in Threads : CheckLine(t)
  \/ \E t \in Threads : Commit(t)
  \/ \E t \in Threads : CommitFail(t)
  \/ \E t \in Threads : Emit(t)
  \/ \E t \in Threads : EmitFail(t)

SpecEmit == Init /\ [][NextEmit]_vars

(***************************************************************************)
(* Properties of order placement                                           *)
(***************************************************************************)
StoreUnchanged ==
  /\ products' = products
  /\ orders' = orders
  /\ published' = published

\* The thread's last request was a place_bundle that succeeded.
Placed(t) ==
  /\ th[t].pc = "idle"
  /\ th[t].resp.code = 200
  /\ th[t].resp.bundle_id[3] = "A"

\* ... and it bought one unit of product p in a single line.
BoughtOne(t, p) ==
  /\ Placed(t)
  /\ Len(th[t].resp.created) = 1
  /\ orders[th[t].resp.created[1]].product_id = p
  /\ orders[th[t].resp.created[1]].quantity = 1

\* C1: shop 2's Rice row (product 3) has a stock of one unit and is never
\* restocked; of two place_bundle calls that each ask for one unit of it, in
\* any interleaving, it is never the case that both succeed.
C1_NeverBothSucceed ==
  Catalog(1)[3].stock = 1 =>
    ~(\E a, b \in Threads : a # b /\ BoughtOne(a, 3) /\ BoughtOne(b, 3))

\* C2: in every reachable state the stock of every product is a non-negative
\* integer.
C2_StockNonNegative == \A p \in PIDs : products[p].stock >= 0

\* C3: reserve is all-or-nothing.  No step of the availability loop of a
\* place_bundle call changes a product, creates an order line or publishes
\* an event, and a call that found a line unavailable never goes on to
\* commit: it ends in the 409 response with the store as it was.
C3_AllOrNothing ==
  /\ [](\A t \in Threads :
          (th[t].route = "auto" /\ th[t].pc \in {"commit", "emit"}) =>
            (th[t].unavailable = <<>> /\ Len(th[t].found_rows) = Len(th[t].items)))
  /\ [][\A t \in Threads :
          (th[t].pc = "check" /\ th'[t] # th[t]) =>
            (/\ StoreUnchanged
             /\ th[t].unavailable # <<>> =>
                   (th'[t].pc = "check" \/ (th'[t].pc = "idle" /\ th'[t].resp.code = 409)))]_vars

\* A call was rejected with two lines unavailable while its Rice line was in
\* stock, and the store holds no order line and no event.
C3_Witness ==
  \E t \in Threads :
    /\ th[t].pc = "idle"
    /\ th[t].resp.code = 409
    /\ Len(th[t].resp.unavailable) = 2
    /\ products[1].stock >= 1
    /\ products = Catalog(products[1].stock)
    /\ orders = <<>>
    /\ published = <<>>

\* C6: all order lines that share one bundle identifier have the same
\* assigned provider.
C6_BundleOneProvider ==
  \A i, j \in DOMAIN orders :
    orders[i].bundle_id = orders[j].bundle_id =>
      orders[i].assigned_annachi_id = orders[j].assigned_annachi_id

\* The units of product p that the lines `rows` (pairs of product and
\* quantity) ask for.
RECURSIVE Asked(_, _)
Asked(rows, p) ==
  IF rows = <<>> THEN 0
  ELSE (IF Head(rows)[1] = p THEN Head(rows)[2] ELSE 0) + Asked(Tail(rows), p)

\* C7: the commit of a place_bundle call of which every line is available
\* creates one order line per requested item, all with one bundle id that no
\* earlier line carries, status Pending, the requested quantity and the
\* selected provider; each product's stock goes down, and its sold counter
\* up, by exactly the quantities of the lines that name it.
C7_CommitExact ==
  [][\A t \in Threads :
       (th[t].route = "auto" /\ th[t].pc = "commit" /\ th'[t].pc = "emit") =>
         /\ Len(orders') = Len(orders) + Len(th[t].items)
         /\ \A j \in DOMAIN orders : orders[j].bundle_id # th[t].bundle_id
         /\ \A k \in 1..Len(th[t].items) :
              LET o == orders'[Len(orders) + k]
              IN  /\ o.status = "Pending"
                  /\ o.quantity = th[t].items[k].qty
                  /\ o.assigned_annachi_id = th[t].ann
                  /\ o.bundle_id = th[t].bundle_id
                  /\ o.consumer_id = th[t].user
                  /\ products[o.product_id].name = th[t].items[k].name
                  /\ products[o.product_id].owner_id = th[t].ann
         /\ \A p \in PIDs :
              /\ products'[p].stock =
                   products[p].stock - Asked(th[t].found_rows, p)
              /\ products'[p].total_purchased =
                   products[p].total_purchased + Asked(th[t].found_rows, p)]_vars

\* The unavailable list the lines `items` give against provider ann, by the
\* stock the call saw: the failing lines in input order.
RECURSIVE Unavailable(_, _, _)
Unavailable(items, ann, cache) ==
  IF items = <<>> THEN <<>>
  ELSE LET it   == Head(items)
           prod == find_product(ann, it)
           rest == Unavailable(Tail(items), ann, cache)
       IN  IF prod = 0
           THEN <<[name |-> it.name, category |-> it.category,
                   reason |-> "not_found_for_selected_annachi", left |-> None]>> \o rest
           ELSE IF View(cache, prod).stock < it.qty
           THEN <<[name |-> it.name, category |-> it.category,
                   reason |-> "insufficient_stock",
                   left |-> Some(View(cache, prod).stock)]>> \o rest
           ELSE rest

\* C8: the 409 response lists exactly the requested lines that fail against
\* the selected provider, in input order, each with its reason and the
\* remaining stock, and names the provider that was attempted.
C8_CompleteUnavailable ==
  [][\A t \in Threads :
       (th[t].pc = "check" /\ th'[t].pc = "idle") =>
         /\ th'[t].resp.code = 409
         /\ th'[t].resp.unavailable =
              Unavailable(th[t].items, th[t].ann, th[t].cache)
         /\ th'[t].resp.unavailable # <<>>
         /\ th'[t].resp.assigned_annachi_id = th[t].ann]_vars

\* A 409 response that lists Onion as not found and then Tomato as short of
\* stock with one unit left, after a Rice line that was available.
C8_Witness ==
  \E t \in Threads :
    /\ th[t].pc = "idle"
    /\ th[t].resp.code = 409
    /\ Len(th[t].resp.unavailable) = 2
    /\ th[t].resp.unavailable[1].name = "Onion"
    /\ th[t].resp.unavailable[1].reason = "not_found_for_selected_annachi"
    /\ th[t].resp.unavailable[2].name = "Tomato"
    /\ th[t].resp.unavailable[2].reason = "insufficient_stock"
    /\ th[t].resp.unavailable[2].left = Some(1)
    /\ th[t].resp.assigned_annachi_id = 1

\* C9: two distinct successful place_bundle submissions never produce the
\* same bundle id.
C9_BundleIdsUnique ==
  \A a, b \in Threads :
    (a # b /\ Placed(a) /\ Placed(b)) => th[a].resp.bundle_id # th[b].resp.bundle_id

\* C10: when the commit of a place_bundle call fails, the caller gets an
\* error, and the step leaves every product's stock and sold counter, the
\* order lines and the published events as they were.
C10_FailedCommitRollsBack ==
  [][\A t \in Threads :
       (th[t].route = "auto" /\ th[t].pc = "commit" /\ th'[t].pc = "idle") =>
         /\ th'[t].resp.code = 500
         /\ StoreUnchanged]_vars

\* A place_bundle call returned the error of a failed commit while the
\* store holds no order line and no event and the stock it had reserved is
\* still there.
C10_Witness ==
  \E t \in Threads :
    /\ th[t].pc = "idle"
    /\ th[t].resp.code = 500
    /\ th[t].resp.error = "Failed to create orders"
    /\ orders = <<>>
    /\ published = <<>>
    /\ products = Catalog(products[1].stock)

(***************************************************************************)
(* Properties of the selector                                              *)
(***************************************************************************)
HasGPS == sel.lat # None /\ sel.lng # None

HasCoords(a) == users[a].shop_lat # None /\ users[a].shop_lng # None

\* Kilometres from the consumer of the query to shop a, both with coordinates.
KmTo(a) == Abs(Val(users[a].shop_lat) - Val(sel.lat))

InRadius(a) == HasCoords(a) /\ HasGPS /\ KmTo(a) <= users[a].service_radius_km

SamePin(a) == Strip(users[a].pincode) = Strip(sel.pincode)

\* C4: when all providers have coordinates, the request carries consumer
\* coordinates and some provider is within its own service radius, select
\* returns a provider that is within its own radius.
C4_InRadiusWins ==
  (/\ sel.pc = "done"
   /\ HasGPS
   /\ \A a \in anns_all(users) : HasCoords(a)
   /\ \E a \in anns_all(users) : InRadius(a))
  => (sel.ann \in anns_all(users) /\ InRadius(sel.ann))

\* A provider of the request's pincode is out of its radius and the answer
\* is a provider of another pincode that is within its radius.
C4_Witness ==
  /\ sel.pc = "done"
  /\ HasGPS
  /\ \A a \in anns_all(users) : HasCoords(a)
  /\ \E a \in anns_all(users) : SamePin(a) /\ ~InRadius(a)
  /\ sel.ann \in anns_all(users)
  /\ ~SamePin(sel.ann)
  /\ InRadius(sel.ann)

\* C5: when some provider has the request's pincode and is within its own
\* radius of the consumer, or the request carries no coordinates, select
\* returns a provider of the request's pincode.
C5_SamePinPreferred ==
  (/\ sel.pc = "done"
   /\ Strip(sel.pincode) # ""
   /\ \E a \in anns_all(users) : SamePin(a) /\ (InRadius(a) \/ ~HasGPS))
  => (sel.ann \in anns_all(users) /\ SamePin(sel.ann))

\* The answer has the request's pincode although a provider of another
\* pincode is strictly nearer to the consumer and within its radius.
C5_Witness ==
  /\ sel.pc = "done"
  /\ HasGPS
  /\ sel.ann \in anns_all(users)
  /\ SamePin(sel.ann)
  /\ InRadius(sel.ann)
  /\ \E b \in anns_all(users) :
       ~SamePin(b) /\ InRadius(b) /\ KmTo(b) < KmTo(sel.ann)

(***************************************************************************)
(* Properties of status updates                                            *)
(***************************************************************************)
\* Provider P owns the product of order line id or is assigned to it.
Qualifies(P, id) ==
  \/ products[orders[id].product_id].owner_id = P
  \/ orders[id].assigned_annachi_id = P

\* The lines of the bundle that thread t's request names.
BundleLines(t) == {id \in DOMAIN orders : orders[id].bundle_id = th[t].oid[2]}

\* C11: a bundle-level update by provider P with a non-empty status is
\* carried out whenever P qualifies for at least one line of the bundle; its
\* commit sets the status of exactly the lines of the bundle P qualifies
\* for and leaves every other line as it was, and the call ends with the
\* message of success.
C11_BundleUpdateOwnLines ==
  [][\A t \in Threads :
       (/\ th[t].route = "update"
        /\ th'[t] # th[t]
        /\ th[t].oid[1] = "BUNDLE"
        /\ users[th[t].user].role = "annachi"
        /\ th[t].new_status # ""
        /\ \E id \in BundleLines(t) : Qualifies(th[t].user, id))
       => /\ th[t].pc = "update" => th'[t].pc = "ucommit"
          /\ th[t].pc = "ucommit" =>
               /\ th'[t].pc = "uemit"
               /\ \A id \in DOMAIN orders :
                    orders'[id] =
                      IF id \in BundleLines(t) /\ Qualifies(th[t].user, id)
                      THEN [orders[id] EXCEPT !.status = th[t].new_status]
                      ELSE orders[id]
          /\ th'[t].pc = "idle" => th'[t].resp.flash = "Bundle updated"]_vars

\* Shop 1 has set its line of the shared bundle to Packed and was told so,
\* while shop 2's line of that bundle is still Pending.
C11_Witness ==
  \E t \in Threads :
    /\ th[t].pc = "idle"
    /\ th[t].resp.code = 302
    /\ th[t].resp.flash = "Bundle updated"
    /\ th[t].resp.bundle_id = SharedBundle
    /\ orders[1].status = "Packed"
    /\ orders[2].status = "Pending"

\* The caller of thread t's request is a provider that qualifies for line id.
Authorized(t, id) ==
  /\ users[th[t].user].role = "annachi"
  /\ Qualifies(th[t].user, id)

\* Thread t's request names lines and its caller has rights over none of them.
NoRights(t) ==
  \/ users[th[t].user].role # "annachi"
  \/ /\ th[t].oid[1] = "ID"
     /\ th[t].oid[2] \in DOMAIN orders
     /\ ~Qualifies(th[t].user, th[t].oid[2])
  \/ /\ th[t].oid[1] = "BUNDLE"
     /\ BundleLines(t) # {}
     /\ \A id \in BundleLines(t) : ~Qualifies(th[t].user, id)

\* C12: a status update, by order id or by bundle id, whose caller is not a
\* provider or has rights over none of the lines it names is turned away by
\* the handler's first step with the order lines and the published events
\* as they were; and no step changes the status of a line, or publishes a
\* status event for a line, unless it is a step of a request whose caller
\* is a provider that owns the line's product or is assigned to the line.
C12_UnauthorizedChangesNothing ==
  [][/\ \A t \in Threads :
          (th[t].pc = "update" /\ th'[t] # th[t] /\ NoRights(t)) =>
            /\ th'[t].pc = "idle"
            /\ th'[t].resp.flash \in
                 {"Access denied.", "Unauthorized", "Bundle not found or unauthorized"}
            /\ orders' = orders
            /\ published' = published
     /\ \A id \in DOMAIN orders :
          orders'[id].status # orders[id].status =>
            \E t \in Threads :
              th'[t] # th[t] /\ th[t].route = "update" /\ Authorized(t, id)
     /\ published' # published =>
          \E t \in Threads :
            /\ th'[t] # th[t]
            /\ th[t].route = "update"
            /\ Authorized(t, published'[Len(published')].order_id)]_vars

\* Some call was answered Unauthorized, another was denied for its role, and
\* every order line is Pending with no status event published.
C12_Witness ==
  /\ \E t \in Threads : th[t].pc = "idle" /\ th[t].resp = Flash("Unauthorized")
  /\ \E t \in Threads : th[t].pc = "idle" /\ th[t].resp = Flash("Access denied.")
  /\ orders = StatusOrders
  /\ Len(published) = Len(StatusOrders)

(***************************************************************************)
(* Properties of the hub                                                   *)
(***************************************************************************)
\* Everything that was put into q's queue, in order.
Enqueued(q) == hub.yielded[q] \o hub.queue[q]

\* How often the event of call n was put into q's queue.
Count(q, n) == Cardinality({k \in DOMAIN Enqueued(q) : Enqueued(q)[k].id = n})

\* The calls of broadcast() whose loop is over and that are about to return.
LoopOver == {t \in Threads : hub.call[t].pc = "put" /\ hub.call[t].todo = {}}

\* C13: when the loop of a call of broadcast() is over, every subscriber
\* that has been registered from the start of the call on has the event in
\* its queue, also when other subscribers were discarded while the call
\* ran; a discard never ends the loop early, and the call returns.
C13_DisconnectDuringPublish ==
  /\ \A t \in LoopOver :
       \A q \in hub.call[t].steady : Count(q, hub.call[t].data.id) >= 1
  /\ \A t \in Threads :
       hub.call[t].pc = "put" =>
         \A q \in hub.call[t].steady \ hub.call[t].todo :
           Count(q, hub.call[t].data.id) >= 1

\* The loop of a call is over during which one of the two subscribers it
\* started with was discarded, and the other one has the event.
C13_Witness ==
  \E t \in LoopOver :
    /\ Cardinality(hub.call[t].registered) = 2
    /\ Cardinality(hub.call[t].steady) = 1
    /\ \A q \in hub.call[t].steady : Count(q, hub.call[t].data.id) = 1

\* C14: a call of broadcast() puts its event exactly once into every queue
\* that was registered when the call started and into no other queue: while
\* the call runs, the queues that hold the event are the registered ones the
\* loop has passed, so at the end of the loop they are the registered ones;
\* and no queue ever holds, or has yielded, one event twice.
C14_ExactlyOncePerSubscriber ==
  /\ \A t \in Threads :
       hub.call[t].pc = "put" =>
         \A q \in Conns :
           Count(q, hub.call[t].data.id) =
             IF q \in hub.call[t].registered \ hub.call[t].todo THEN 1 ELSE 0
  /\ \A q \in Conns : \A n \in 1..hub.nev : Count(q, n) <= 1

\* The loop of a call is over; the subscriber that was registered at its
\* start has the event once, and a subscriber that registered while the
\* call ran does not have it.
C14_Witness ==
  \E t \in LoopOver :
    /\ \E q \in hub.call[t].registered : Count(q, hub.call[t].data.id) = 1
    /\ \E q \in hub.subscribers \ hub.call[t].registered :
         Count(q, hub.call[t].data.id) = 0

\* The user that opened stream q may see event e: a consumer the events of
\* its own orders, a provider those of the lines it owns or is assigned.
Concerns(e, u) ==
  IF users[u].role = "consumer" THEN e.consumer_id = u
  ELSE e.owner_id = u \/ e.assigned_annachi_id = u

\* C16: every event that a stream has yielded concerns the user that opened
\* the stream.
C16_StreamsScoped ==
  \A q \in Conns :
    hub.conn[q].state \in {"open", "closed"} =>
      \A k \in DOMAIN hub.yielded[q] : Concerns(hub.yielded[q][k], hub.conn[q].user)

\* Stream q has yielded the event of call n.
Yielded(q, n) == \E k \in DOMAIN hub.yielded[q] : hub.yielded[q][k].id = n

\* Call n of broadcast() is running and q was registered when it started.
PublishedTo(q, n) ==
  \E t \in Threads :
    /\ hub.call[t].pc = "put"
    /\ hub.call[t].data.id = n
    /\ q \in hub.call[t].registered

\* C15: whatever waits in the queue of a client that has stopped reading,
\* every call of broadcast() returns, and every client that keeps reading
\* is in the end sent each event that was published while it was
\* registered, unless its stream is closed first.
C15_StalledNeverBlocks ==
  /\ \A t \in Threads : (hub.call[t].pc = "put") ~> (hub.call[t].pc = "idle")
  /\ \A q \in Readers : \A n \in 1..MaxEvents :
       PublishedTo(q, n) ~> (hub.conn[q].state = "closed" \/ Yielded(q, n))

\* Two events wait in the queue of c1, which has read nothing, no call is
\* running, and c2 has been sent both.
C15_Witness ==
  /\ hub.conn["c1"].state = "open"
  /\ hub.yielded["c1"] = <<>>
  /\ Len(hub.queue["c1"]) = 2
  /\ \A t \in Threads : hub.call[t].pc = "idle"
  /\ Yielded("c2", 1)
  /\ Yielded("c2", 2)

(***************************************************************************)
(* Properties of item validation                                           *)
(***************************************************************************)
\* An item is invalid: its name is empty, its category is outside the fixed
\* set, or its quantity is below 1.
InvalidItem(it) ==
  \/ Strip(it.name) = ""
  \/ Lower(Strip(it.category)) \notin FIXED_CATS
  \/ it.quantity < 1

\* C17: a cart with an invalid item is answered with the validation error
\* and does not pass on to provider selection.
C17_InvalidItemRejected ==
  (sel.pc = "validated" /\ \E k \in DOMAIN sel.cart : InvalidItem(sel.cart[k]))
    => (sel.resp # NoResp /\ sel.resp.code = 400)

\* C18 as stated: the validation error reports every invalid item of the
\* cart.
C18_ReportsEveryInvalid ==
  (sel.pc = "validated" /\ sel.resp # NoResp) =>
    \A k \in DOMAIN sel.cart : invalid(sel.cart[k]) => sel.resp.item = sel.cart[k]

\* C18, amended: a cart is answered with the validation error exactly when
\* the loop finds one of its items invalid, and the response reports one
\* item: the first one in input order that the loop finds invalid.
C18_ReportsFirstInvalid ==
  sel.pc = "validated" =>
    /\ sel.resp = NoResp <=> \A k \in DOMAIN sel.cart : ~invalid(sel.cart[k])
    /\ sel.resp # NoResp =>
         /\ sel.resp.code = 400
         /\ \E k \in DOMAIN sel.cart :
              /\ sel.resp.item = sel.cart[k]
              /\ invalid(sel.cart[k])
              /\ \A j \in 1..(k - 1) : ~invalid(sel.cart[j])

\* A cart of a valid line, a line of a wrong category and a line without a
\* name was answered with the line of the wrong category alone.
C18_Witness ==
  /\ sel.pc = "validated"
  /\ sel.cart = <<Item("Rice", "cereals", 1), Item("Rice", "grains", 1),
                  Item("", "fruits", -1)>>
  /\ sel.resp # NoResp
  /\ sel.resp.item = Item("Rice", "grains", 1)

(***************************************************************************)
(* Properties of the publication of new orders                             *)
(***************************************************************************)
\* The order ids of the new_order events published for the lines `ids`, in
\* the order of publication.
PublishedIds(ids) ==
  LET Mine(e) == e.type = "new_order" /\ e.order_id \in ids
      s       == SelectSeq(published, Mine)
  IN  [k \in 1..Len(s) |-> s[k].order_id]

Lines(created) == {created[k] : k \in DOMAIN created}

Increasing(s) == \A i, j \in DOMAIN s : i < j => s[i] < s[j]

\* Every published event is the event of a committed order line.
EventsOfCommittedLines ==
  \A k \in DOMAIN published : published[k].order_id \in DOMAIN orders

\* C19 as stated: the events published for the lines of a successful
\* place_bundle call are exactly one per line, in the order of creation;
\* while the call publishes, they are those of the lines the loop has
\* passed; and every event is the event of a committed line.
C19_OneEventPerLine ==
  /\ \A t \in Threads :
       Placed(t) => PublishedIds(Lines(th[t].resp.created)) = th[t].resp.created
  /\ \A t \in Threads :
       (th[t].route = "auto" /\ th[t].pc = "emit") =>
         PublishedIds(Lines(th[t].created)) = SubSeq(th[t].created, 1, th[t].i - 1)
  /\ EventsOfCommittedLines

\* C19, amended: the events published for the lines of a successful
\* place_bundle call are at most one per line, in the order of creation, and
\* every event is the event of a committed line; each pass of the loop over
\* the created lines either publishes the event of its line, and only that,
\* or publishes nothing.
C19_AtMostOneEventPerLine ==
  /\ [](\A t \in Threads :
          Placed(t) =>
            /\ Increasing(PublishedIds(Lines(th[t].resp.created)))
            /\ Increasing(th[t].resp.created))
  /\ [](\A t \in Threads :
          (th[t].route = "auto" /\ th[t].pc = "emit") =>
            LET s == PublishedIds(Lines(th[t].created))
            IN  /\ Increasing(s)
                /\ Increasing(th[t].created)
                /\ \A k \in DOMAIN s : s[k] < th[t].created[th[t].i])
  /\ []EventsOfCommittedLines
  /\ [][\A t \in Threads :
          (th[t].route = "auto" /\ th[t].pc = "emit" /\ th'[t] # th[t]) =>
            \/ published' = published
            \/ /\ published' = Append(published, published'[Len(published')])
               /\ published'[Len(published')].type = "new_order"
               /\ published'[Len(published')].order_id = th[t].created[th[t].i]]_vars

\* A place_bundle call of two lines has returned its 200 response and the
\* events of its two lines were published, the first line's first.
C19_Witness ==
  \E t \in Threads :
    /\ Placed(t)
    /\ Len(th[t].resp.created) = 2
    /\ PublishedIds(Lines(th[t].resp.created)) = th[t].resp.created

\* C20: a pass of the publication loop of a place_bundle call in which the
\* emission fails leaves the order lines, the stock and the sold counters as
\* the commit made them, and the call goes on: to the next line when there
\* is one, else to the 200 response that names every created line.
C20_EmissionFailureSwallowed ==
  [][\A t \in Threads :
       (/\ th[t].route = "auto"
        /\ th[t].pc = "emit"
        /\ th'[t] # th[t]
        /\ published' = published)
       => /\ orders' = orders
          /\ products' = products
          /\ \A k \in DOMAIN th[t].created : th[t].created[k] \in DOMAIN orders
          /\ IF th[t].i < Len(th[t].created)
             THEN th'[t].pc = "emit" /\ th'[t].i = th[t].i + 1
             ELSE /\ th'[t].pc = "idle"
                  /\ th'[t].resp.code = 200
                  /\ th'[t].resp.created = th[t].created]_vars

\* A place_bundle call of two lines has returned its 200 response; the
\* event of its first line is missing, that of its second line was
\* published, both lines are in the store and their units count as sold.
C20_Witness ==
  \E t \in Threads :
    /\ Placed(t)
    /\ Len(th[t].resp.created) = 2
    /\ PublishedIds(Lines(th[t].resp.created)) = <<th[t].resp.created[2]>>
    /\ \A k \in 1..2 :
         /\ th[t].resp.created[k] \in DOMAIN orders
         /\ products[orders[th[t].resp.created[k]].product_id].total_purchased >= 1

(***************************************************************************)
(* Further properties of the selector                                      *)
(***************************************************************************)
\* The lowest id of a non-empty set of providers.
LowestId(S) == CHOOSE a \in S : \A b \in S : a <= b

\* The providers whose postal code is the one the request carries.
SamePinProviders ==
  IF Strip(sel.pincode) = "" THEN {}
  ELSE {a \in anns_all(users) : SamePin(a)}

\* The pool the selector prefers: the providers of the request's postal
\* code when there are any, else all providers.
PreferredPool ==
  IF SamePinProviders # {} THEN SamePinProviders ELSE anns_all(users)

\* C21: when the request lacks a latitude or a longitude, select returns
\* the lowest-id provider of the request's postal code when there is one,
\* else the lowest-id provider of all, and returns no distance.
C21_NoCoordinatesByPincodeThenId ==
  (sel.pc = "done" /\ ~HasGPS /\ anns_all(users) # {})
    => (sel.ann = LowestId(PreferredPool) /\ sel.dist = None)

\* The request has a latitude but no longitude; provider 2, of the
\* request's postal code, is returned although provider 1, of another
\* postal code, has coordinates and a lower id.
C21_Witness ==
  /\ sel.pc = "done"
  /\ sel.lat # None
  /\ sel.lng = None
  /\ sel.ann = 2
  /\ SamePin(2)
  /\ users[1].role = "annachi"
  /\ ~SamePin(1)
  /\ HasCoords(1)
  /\ sel.dist = None

\* The users that have the provider role.
Providers == {u \in DOMAIN users : users[u].role = "annachi"}

\* The provider has coordinates and the consumer is beyond its radius.
OutOfRadius(a) ==
  HasCoords(a) /\ HasGPS /\ KmTo(a) > users[a].service_radius_km

\* C22: select returns none exactly when no user has the provider role;
\* otherwise it returns one user, and that user has the provider role.
C22_NoneIffNoProvider ==
  sel.pc = "done"
    => /\ (sel.ann = 0) <=> (Providers = {})
       /\ sel.ann # 0 => sel.ann \in Providers

\* Consumer coordinates are given, two providers exist, each is either out
\* of its radius or without coordinates, both kinds occur, and one of them
\* is returned.
C22_Witness ==
  /\ sel.pc = "done"
  /\ HasGPS
  /\ \E a, b \in Providers : OutOfRadius(a) /\ ~HasCoords(b)
  /\ \A a \in Providers : OutOfRadius(a) \/ ~HasCoords(a)
  /\ sel.ann \in Providers

\* C23: for a given registry and request, the provider and the distance
\* returned are the same under every order in which the registry enumerates
\* its providers.
C23_SameUnderEveryEnumeration ==
  sel.pc = "done"
    => \A anns \in Enumerations(users) :
         select_enumerated(users, anns, sel.pincode, sel.lat, sel.lng)
           = [ann |-> sel.ann, dist |-> sel.dist]

\* Two providers of the preferred pool are within their radius at the same
\* distance, a third is out of its radius, and the one of lower id is
\* returned.
C23_Witness ==
  /\ sel.pc = "done"
  /\ HasGPS
  /\ \E a, b, c \in Providers :
       /\ a < b
       /\ InRadius(a) /\ InRadius(b) /\ KmTo(a) = KmTo(b)
       /\ OutOfRadius(c)
       /\ SamePin(c) /\ Strip(sel.pincode) # ""
       /\ ~SamePin(a) /\ ~SamePin(b)
       /\ sel.ann = a

\* Provider a is at least as good as b by (distance, id).
NearerOrLowerId(a, b) ==
  KmTo(a) < KmTo(b) \/ (KmTo(a) = KmTo(b) /\ a <= b)

\* C28: when consumer coordinates are given and every provider is out of
\* its radius, select returns the provider of the preferred pool that is
\* nearest to the consumer, the lowest id among the equally near.
C28_NearestWhenAllOutOfRadius ==
  (/\ sel.pc = "done"
   /\ HasGPS
   /\ Providers # {}
   /\ \A a \in Providers : OutOfRadius(a))
  => /\ sel.ann \in PreferredPool
     /\ \A b \in PreferredPool : NearerOrLowerId(sel.ann, b)

\* The candidate that ranks first in the preferred pool.
FirstPick == ranked_first(users, sel.lat, sel.lng, PreferredPool)

\* C29: when consumer coordinates are given and the candidate picked from
\* the preferred pool is out of its radius, select returns the nearest of
\* all providers within their radius, the lowest id among the equally near,
\* when there is one, and the picked candidate otherwise.
C29_EscapeValve ==
  (/\ sel.pc = "done"
   /\ HasGPS
   /\ Providers # {}
   /\ OutOfRadius(FirstPick))
  => IF \E a \in Providers : InRadius(a)
     THEN /\ sel.ann \in Providers
          /\ InRadius(sel.ann)
          /\ \A b \in Providers : InRadius(b) => NearerOrLowerId(sel.ann, b)
     ELSE sel.ann = FirstPick

\* The picked candidate is out of its radius, the provider returned is
\* within its radius, and a provider of lower id is within its radius too
\* but farther from the consumer.
C29_Witness ==
  /\ sel.pc = "done"
  /\ HasGPS
  /\ Providers # {}
  /\ OutOfRadius(FirstPick)
  /\ InRadius(sel.ann)
  /\ \E b \in Providers : b < sel.ann /\ InRadius(b) /\ KmTo(b) > KmTo(sel.ann)

\* Key s comes strictly before key t.
Before(s, t) == TupleLeq(s, t) /\ ~TupleLeq(t, s)

\* The ranking key the selector gives to provider a for the request.
KeyOf(a) == score(users, sel.lat, sel.lng, a)

\* C30: a provider without coordinates is never flagged out of radius; when
\* it is the only provider of the request's postal code select returns it,
\* whatever the consumer coordinates and the other providers; and it ranks
\* after every in-radius provider and before every out-of-radius provider.
C30_NoCoordinatesStaysSelectable ==
  sel.pc = "done"
    => \A a \in Providers :
         ~HasCoords(a)
           => /\ KeyOf(a)[1] = 0
              /\ SamePinProviders = {a} => sel.ann = a
              /\ \A b \in Providers :
                   /\ InRadius(b) => Before(KeyOf(b), KeyOf(a))
                   /\ OutOfRadius(b) => Before(KeyOf(a), KeyOf(b))

\* Consumer coordinates are given; the provider returned has no coordinates
\* and is the only one of the request's postal code, while a provider of
\* lower id and another postal code is within its radius and a third one is
\* out of its radius.
C30_Witness ==
  /\ sel.pc = "done"
  /\ HasGPS
  /\ sel.ann \in Providers
  /\ ~HasCoords(sel.ann)
  /\ SamePinProviders = {sel.ann}
  /\ \E b, c \in Providers :
       b < sel.ann /\ InRadius(b) /\ ~SamePin(b) /\ OutOfRadius(c)

(***************************************************************************)
(* Properties of the product rows under place_bundle                       *)
(***************************************************************************)
\* Thread t, serving a place_bundle call, takes this step.
AutoStep(t) == th[t].route = "auto" /\ th'[t] # th[t]

\* C26: a step of a place_bundle call neither loads nor changes a product
\* row of a provider other than the one selected for the call.
C26_OnlyRowsOfSelectedProvider ==
  [][\A t \in Threads :
       AutoStep(t)
         => \A p \in PIDs :
              products[p].owner_id # th[t].ann
                => /\ products'[p] = products[p]
                   /\ th'[t].cache[p] = None]_vars

\* A call assigned to shop 2 has bought its Rice; the Rice of shop 1, a row
\* of the same name, category and pincode, is as it was.
C26_Witness ==
  \E t \in Threads :
    /\ th[t].pc = "emit"
    /\ th[t].route = "auto"
    /\ th[t].ann = 2
    /\ products[3].total_purchased >= 1
    /\ products[1].total_purchased = 0
    /\ products[1].stock \in RiceStocks
    /\ products[1].name = products[3].name
    /\ products[1].category = products[3].category
    /\ products[1].pincode = products[3].pincode
    /\ products[1].owner_id # products[3].owner_id

CommitsUpdate(t) == th[t].pc = "ucommit" /\ th'[t].pc = "uemit"

\* The order lines thread t's update has loaded.
Targeted(t) == {th[t].rows[k] : k \in DOMAIN th[t].rows}

\* C24: no step removes an order line or changes its provider, bundle id,
\* consumer, product or quantity; its status changes only in the commit of
\* a status update that targets the line, to the status of that update.
C24_LineFrozenButStatus ==
  [][\A id \in DOMAIN orders :
       /\ id \in DOMAIN orders'
       /\ orders'[id] = [orders[id] EXCEPT !.status = orders'[id].status]
       /\ orders'[id].status # orders[id].status
            => \E t \in Threads :
                 /\ CommitsUpdate(t)
                 /\ id \in Targeted(t)
                 /\ orders'[id].status = th[t].new_status]_vars

\* Line 1 was packed by a status update and a later order added a line;
\* line 1 is otherwise as it was created, and line 2, of the same bundle,
\* is untouched.
C24_Witness ==
  /\ Len(orders) > Len(LifeOrders)
  /\ orders[1] = [LifeOrders[1] EXCEPT !.status = "Packed"]
  /\ orders[2] = LifeOrders[2]

\* The caller of thread t's update is a provider with rights over some line
\* that the request names.
HasRights(t) ==
  /\ users[th[t].user].role = "annachi"
  /\ \/ /\ th[t].oid[1] = "ID"
        /\ th[t].oid[2] \in DOMAIN orders
        /\ Qualifies(th[t].user, th[t].oid[2])
     \/ /\ th[t].oid[1] = "BUNDLE"
        /\ \E id \in BundleLines(t) : Qualifies(th[t].user, id)

\* C25: every new order line is Pending; an update with a non-empty status
\* by a provider with rights is carried out whatever the status sent and
\* whatever the present status of the lines, and its commit gives the
\* targeted lines the status sent.
C25_TransitionsNotValidated ==
  [][/\ \A id \in DOMAIN orders' \ DOMAIN orders : orders'[id].status = "Pending"
     /\ \A t \in Threads :
          /\ (/\ th[t].pc = "update" /\ th'[t] # th[t]
              /\ HasRights(t) /\ th[t].new_status # "")
               => /\ th'[t].pc = "ucommit"
                  /\ Targeted(t)' # {}
          /\ CommitsUpdate(t)
               => \A id \in Targeted(t) : orders'[id].status = th[t].new_status]_vars

\* The published events of the status updates of line id, in order.
StatusHistory(id) ==
  LET IsUpdate(e) == e.type = "status_update" /\ e.order_id = id
      evs == SelectSeq(published, IsUpdate)
  IN  [k \in 1..Len(evs) |-> evs[k].status]

\* Line 2 was set to Delivered and then set back to Pending, and line 1 has
\* a status that is none of Pending, Packed and Delivered.
C25_Witness ==
  /\ StatusHistory(2) = <<"Delivered", "Pending">>
  /\ orders[2].status = "Pending"
  /\ orders[1].status = "Lost"

(***************************************************************************)
(* Properties of the counters of a product                                 *)
(***************************************************************************)
\* The units of product p in the order lines 1..n of the table.
RECURSIVE SoldInLines(_, _)
SoldInLines(p, n) ==
  IF n = 0 THEN 0
  ELSE (IF orders[n].product_id = p THEN orders[n].quantity ELSE 0)
         + SoldInLines(p, n - 1)

\* C31: for every product, stock + total_purchased is the same after every
\* step, and total_purchased, which starts at 0, is the sum of the
\* quantities of the committed order lines of the product.
C31_CountersConserved ==
  /\ [][\A p \in PIDs :
          products'[p].stock + products'[p].total_purchased
            = products[p].stock + products[p].total_purchased]_vars
  /\ [](\A p \in PIDs :
          products[p].total_purchased = SoldInLines(p, Len(orders)))

(***************************************************************************)
(* Properties of the hub when a put may fail                               *)
(***************************************************************************)
\* The generator of q is still open and q is no longer registered: q was
\* dropped by a call of broadcast().
Dropped(q) == hub.conn[q].state = "open" /\ q \notin hub.subscribers

\* Thread t returns from broadcast() in this step.
Returns(t) == hub.call[t].pc = "put" /\ hub'.call[t].pc = "idle"

\* Thread t enters broadcast() in this step.
Enters(t) == hub.call[t].pc = "idle" /\ hub'.call[t].pc = "put"

\* C32: a queue whose put failed is taken out of the registry when the call
\* returns; when the loop of the call is over every other subscriber that
\* stayed registered has the event once and the failed queues do not have
\* it; a dropped queue never comes back into the registry, and a call that
\* starts after the drop does not put into it.
C32_FailedQueueDropped ==
  /\ [][/\ \A t \in Threads :
            /\ Returns(t) => hub'.subscribers = hub.subscribers \ hub.call[t].dead
            /\ Enters(t) => \A q \in Conns : Dropped(q) => q \notin hub'.call[t].todo
        /\ \A q \in Conns :
             /\ Dropped(q) => q \notin hub'.subscribers
             /\ hub'.queue[q] # hub.queue[q] /\ Len(hub'.queue[q]) > Len(hub.queue[q])
                  => \E t \in Threads :
                       /\ hub.call[t].pc = "put"
                       /\ hub'.queue[q] = Append(hub.queue[q], hub.call[t].data)
                       /\ q \in hub.call[t].registered]_vars
  /\ [](\A t \in LoopOver :
          /\ \A q \in hub.call[t].steady \ hub.call[t].dead :
               Count(q, hub.call[t].data.id) = 1
          /\ \A q \in hub.call[t].dead : Count(q, hub.call[t].data.id) = 0)

\* Two calls have returned; the put of the first into q failed and q was
\* dropped, so q has neither event, while the other subscriber has both.
C32_Witness ==
  /\ \A t \in Threads : hub.call[t].pc = "idle"
  /\ hub.nev = 2
  /\ \E q, r \in Conns :
       /\ Dropped(q)
       /\ Count(q, 1) = 0 /\ Count(q, 2) = 0
       /\ r \in hub.subscribers
       /\ Count(r, 1) = 1 /\ Count(r, 2) = 1

(***************************************************************************)
(* Properties of the order of the events of a stream                       *)
(***************************************************************************)
\* The events of seq that thread t published come in the order of their
\* calls.
InPublishOrder(seq) ==
  \A i, j \in DOMAIN seq :
    (i < j /\ seq[i].by = seq[j].by) => seq[i].id < seq[j].id

\* C33: what a stream has yielded, followed by what waits in its queue, is
\* the sequence of the events put into the queue, in the order of the puts:
\* a put adds at its end, a yield moves the first waiting event to the
\* yielded ones, and nothing else changes it; so the events that one thread
\* publishes one call after the other are yielded in the order of the calls.
C33_PerSubscriberFifo ==
  /\ [][\A q \in Conns :
          /\ \/ hub'.yielded[q] \o hub'.queue[q] = Enqueued(q)
             \/ \E t \in Threads :
                  /\ hub.call[t].pc = "put"
                  /\ hub'.yielded[q] \o hub'.queue[q]
                       = Append(Enqueued(q), hub.call[t].data)
          /\ \/ hub'.yielded[q] = hub.yielded[q]
             \/ /\ hub.queue[q] # <<>>
                /\ hub'.yielded[q] = Append(hub.yielded[q], Head(hub.queue[q]))]_vars
  /\ [](\A q \in Conns : InPublishOrder(hub.yielded[q]) /\ InPublishOrder(Enqueued(q)))

\* Both calls have returned and a stream has yielded the two events, which
\* one thread published one after the other, the earlier one first.
C33_Witness ==
  \E q \in Conns :
    /\ Len(hub.yielded[q]) = 2
    /\ hub.yielded[q][1].by = hub.yielded[q][2].by
    /\ hub.yielded[q][1].id < hub.yielded[q][2].id
    /\ \A t \in Threads : hub.call[t].pc = "idle"

(***************************************************************************)
(* Properties of the legacy multi-item route                               *)
(***************************************************************************)
\* Thread t, in the loop over the items of a legacy cart, takes this step.
LegacyLoopStep(t) ==
  th[t].route = "legacy" /\ th[t].pc = "item" /\ th'[t] # th[t]

\* C34: no step of the loop over the items of a legacy cart changes a
\* product, an order line or the published events, an item that fails ends
\* the request with an error response, whatever was accepted before it, and
\* the request commits only when every item of the list was accepted.
C34_LegacyNoPartialEffect ==
  /\ [][\A t \in Threads :
          LegacyLoopStep(t)
            => /\ StoreUnchanged
               /\ legacy_error(th[t], th[t].items[th[t].i]) # NoResp
                    => /\ th'[t].pc = "idle"
                       /\ th'[t].resp.code \in {400, 404}
                       /\ dblock' # t]_vars
  /\ [](\A t \in Threads :
          (th[t].route = "legacy" /\ th[t].pc = "commit")
            => Len(th[t].pending) = Len(th[t].items))

\* One request failed on the quantity of its second item and another on the
\* product of its second item, each after its first item was accepted, and
\* the store holds no order line, no event and the catalog as it was.
C34_Witness ==
  /\ \E t \in Threads :
       th[t].pc = "idle" /\ th[t].resp = [code |-> 400, error |-> "Quantity must be >= 1"]
  /\ \E t \in Threads :
       th[t].pc = "idle" /\ th[t].resp = [code |-> 404, error |-> "Product not found"]
  /\ orders = <<>>
  /\ published = <<>>
  /\ products = Catalog(products[1].stock)

(***************************************************************************)
(* Properties of the events of status updates                              *)
(***************************************************************************)
\* Thread t, serving a status update, takes this step.
UpdateStep(t) == th[t].route = "update" /\ th'[t] # th[t]

\* An update without a status changes no order line and publishes nothing.
EmptyStatusIsNoOp ==
  \A t \in Threads :
    (UpdateStep(t) /\ th[t].new_status = "")
      => (orders' = orders /\ published' = published /\ th'[t].pc = "idle")

\* This step publishes one status_update event, for order line id.
PublishesFor(id) ==
  /\ Len(published') = Len(published) + 1
  /\ published' = Append(published, published'[Len(published')])
  /\ published'[Len(published')].type = "status_update"
  /\ published'[Len(published')].order_id = id

\* C35 as stated: an update without a status is a no-op; each pass of the
\* loop over the updated lines, which runs after the commit, publishes one
\* status_update event for its line, and the event carries the status that
\* the request sent.
C35_OneEventWithStatusSent ==
  [][/\ EmptyStatusIsNoOp
     /\ \A t \in Threads :
          (UpdateStep(t) /\ th[t].pc = "uemit")
            => /\ PublishesFor(th[t].rows[th[t].i])
               /\ published'[Len(published')].status = th[t].new_status]_vars

\* C35, amended: an update without a status is a no-op; each pass of the
\* loop over the updated lines, which runs after the commit, publishes
\* either nothing or one status_update event for its line, and the event
\* carries the status that the line has in the store at that moment; no
\* other step of an update publishes anything.
C35_AtMostOneEventWithStoredStatus ==
  [][/\ EmptyStatusIsNoOp
     /\ \A t \in Threads :
          UpdateStep(t)
            => IF th[t].pc = "uemit"
               THEN \/ published' = published
                    \/ /\ PublishesFor(th[t].rows[th[t].i])
                       /\ published'[Len(published')].status
                            = orders[th[t].rows[th[t].i]].status
               ELSE published' = published]_vars

\* A bundle update to Packed has returned; both lines of the bundle are
\* Packed in the store, the event of line 3 was published and that of line
\* 4 was not.
C35_Witness ==
  /\ \E t \in Threads :
       /\ th[t].pc = "idle"
       /\ th[t].resp = updated([oid |-> BundleOid(OwnBundle), new_status |-> "Packed"])
  /\ orders[3].status = "Packed"
  /\ orders[4].status = "Packed"
  /\ StatusHistory(3) = <<"Packed">>
  /\ StatusHistory(4) = <<>>

====
